---------------------------- MODULE Spec2Model ----------------------------
(***************************************************************************)
(* A model of mcu (HosaynChiba/mcu): the VASP band-gap analysis            *)
(* (mcu/vasp/main.py) and the Wannier90 interface                          *)
(* (mcu/wannier90/pywannier90_vasp.py).                                    *)
(*                                                                         *)
(* The module holds one specification per part of the program:             *)
(*   SpecGap    VASP.get_bandgap on one vasprun or a list of vaspruns      *)
(*   SpecInit   VASP.__init__ on a list of vasprun / OUTCAR names          *)
(*   SpecPband  VASP._generate_pband, the checking of style and lm         *)
(*   SpecTheta  theta_lmr, the table of orbitals                           *)
(*   SpecGr     g_r, the radius vectors and the near-zero handling         *)
(*   SpecW90    the W90 object: kernel, setup, run, export_AME             *)
(*   SpecAmn    the .amn text layout: export_AME's writer, read_A_mat      *)
(*   SpecMmn    the .mmn text layout: export_AME's writer, read_M_mat      *)
(*   SpecMain   w90.main: get_symmetry, to_convcell, to_primcell, write_cif*)
(*   SpecPlotWf W90.plot_wf, the loop over wf_list                         *)
(*   SpecGapWide   get_bandgap on one insulating run of three k-points     *)
(*   SpecEfermi    VASP.__init__ followed by VASP.get_efermi               *)
(*   SpecPlotPband VASP.plot_pband, the band range                         *)
(*   SpecGrid      periodic_grid and cartesian_prod                        *)
(*   SpecW90Attrs  W90.__init__ and W90.setup, the object's attributes     *)
(* The variables of the parts a specification does not move keep the       *)
(* value their own Init gives them.                                        *)
(*                                                                         *)
(* Python indices are 0-based; TLA+ sequences are 1-based.  A name ending  *)
(* in _idx holds the Python (0-based) index.                               *)
(***************************************************************************)
EXTENDS Integers, Sequences, FiniteSets, TLC

VARIABLES
    \* ---- VASP.get_bandgap (main.py:87-174)
    mode,        \* "one": self.vasprun is one vasprun; "list": a list of them
    ispin,       \* ISPIN of the (first) vasprun
    nbands,      \* NBANDS of the (first) vasprun
    runs,        \* the vasprun objects: weights, band energies, occupations
    efermi,      \* the efermi argument: a sequence, one Fermi level per run
    band,        \* self.band      [spin][kpt][band]
    co_occ,      \* self.co_occ    [spin][kpt][band], occupation in tenths
    co_occ_,     \* self.co_occ_   [spin][kpt][band], the occupied flags
    kpts,        \* self.kpts: the k-points kept, each <<run, row>>
    bandgap,     \* self.bandgap
    report,      \* what the call printed, one record per spin channel
    gap_err,     \* how the last get_bandgap call ended
    calls,       \* number of get_bandgap calls made so far
    \* ---- VASP.__init__ (main.py:9-47)
    vaspruns_arg,  \* the vaspruns argument: [kind, exists], exists[i] tells
                   \* whether the i-th named .xml file is there
    outcars_arg,   \* the outcars argument: [given, exists]
    self_vasprun,  \* self.vasprun: the positions (in vaspruns) of the loaded runs
    self_outcar,   \* self.outcar: [set, items], the positions of the loaded OUTCARs
    useOUTCAR,     \* self.useOUTCAR: "unset", or "True"
    init_out,      \* the lines __init__ printed
    init_pc,       \* "new", "constructed", or the exception __init__ raised
    \* ---- VASP._generate_pband (main.py:341-541)
    pb_style,      \* the style argument
    pb_lm,         \* the lm argument
    pb_list,       \* whether self.vasprun is a list of vaspruns
    pb_result,     \* how the call ended: [out, rows]
    \* ---- theta_lmr (pywannier90_vasp.py:177-262)
    th_l,          \* the l argument
    th_mr,         \* the mr argument
    th_result,     \* how the call ended: [out, branch]
    \* ---- g_r (pywannier90_vasp.py:265-299)
    g_grid,        \* grids_coor: a sequence of points
    g_site,        \* site
    g_lmr,         \* <<l, mr>>
    g_r_vec,       \* r_vec when line 288 is reached
    g_cost,        \* cost, per grid point: "number" or "nan"
    g_result,      \* how the call ended
    \* ---- W90 (pywannier90_vasp.py:302-663)
    w_method,          \* the method running or last run: "kernel", "export_AME"
    w_pc,              \* the statement about to run, or "ready"/"returned"/"raised"
    w_trace,           \* the statements the current call has run, in order
    w_lib_log,         \* the libwannier90 calls the current call has made
    w_written,         \* the files the current call has written
    w_env,             \* which wannier90.vasp.* input files exist
    w_setup_out,       \* the attributes setup assigns (num_bands_loc, ...)
    M_matrix_loc,      \* self.M_matrix_loc
    A_matrix_loc,      \* self.A_matrix_loc
    eigenvalues_loc,   \* self.eigenvalues_loc
    w_outputs,         \* U_matrix, U_matrix_opt, lwindow, wann_centres,
                       \* wann_spreads, spread: 0 is None, n the n-th call's
    w_outputs_before,  \* w_outputs when the current call began
    w_fresh,           \* A_matrix_loc was None when the current call began
    w_err,             \* the exception the current call ended with
    w_ncalls,          \* calls begun so far
    \* ---- the .amn file (pywannier90_vasp.py:512-530, 651-658)
    amn_shape,     \* <<num_kpts_loc, num_wann_loc, num_bands_loc>>
    amn_A,         \* self.A_matrix_loc when export_AME writes it
    amn_file,      \* the lines of the file, each a sequence of fields
    amn_read,      \* the array read_A_mat returns
    amn_labels,    \* per entry, the labels of the line read_A_mat used
    amn_pc,        \* "new", "exported", "read"
    \* ---- the .mmn file (pywannier90_vasp.py:440-466, 635-648)
    mmn_shape,     \* <<num_kpts_loc, nntot_loc, num_bands_loc>>
    mmn_M,         \* self.M_matrix_loc when export_AME writes it
    mmn_file,      \* the lines of the file, each a sequence of fields
    mmn_read,      \* the array read_M_mat returns
    mmn_pc,        \* "new", "exported", "read"
    \* ---- w90.main (w90.py:29-96)
    m_cell,        \* self.cell: "win" (as read), "std" or "prim"
    m_cell_type,   \* self.cell_type: [set, is_std, is_prim]; set is FALSE
                   \* while the attribute does not exist
    m_log,         \* the calls made so far and how each ended
    \* ---- W90.plot_wf (pywannier90_vasp.py:695-746)
    wf_num_wann,   \* self.num_wann_loc
    wf_arg,        \* the wf_list argument: [given, ids]; given is FALSE for None
    wf_list,       \* the local wf_list after line 704
    wf_pos,        \* number of loop iterations begun
    wf_written,    \* the ids whose .xsf file has been written, in order
    wf_pc,         \* "new", "loop", "returned" or "AssertionError"
    ef_has,            \* position |-> the vasprun there has an efermi after get_dos()
    self_efermi,       \* self.efermi: <<source, list position>> per entry
    ef_pc,             \* "not called", "returned" or the error get_efermi raised
    pp_nelec,          \* self.nelec (NELECT)
    pp_lsorbit,        \* self.lsorbit
    pp_nbands,         \* self.nbands
    pp_given,          \* the caller's band_idx list as it was before the first call
    pp_list,           \* the caller's band_idx list object now ([given, v])
    pp_range,          \* band_idx inside plot_pband after lines 590-604
    pp_pc,             \* "not called", "returned" or "AssertionError"
    pp_calls,          \* plot_pband calls made with that list object
    pg_grid,           \* the grid argument of periodic_grid
    pg_supercell,      \* the supercell argument
    pg_order,          \* the order argument: "C" or "F"
    pg_qv,             \* qv: the integer offsets of the grid points, one row each
    pg_weights,        \* the weights array
    pg_pc,             \* "not called" or "returned"
    wa_args,           \* the constructor's inputs: [mp_grid, num_kpts, nspin, gamma, spinors, spin_up]
    wa_attrs,          \* the attributes of the W90 object: name |-> "None", "value", ...
    wa_pc              \* "new", "constructed", "AssertionError", "setup", "RuntimeError"

gapVars == <<mode, ispin, nbands, runs, efermi, band, co_occ, co_occ_, kpts,
             bandgap, report, gap_err, calls>>

initVars == <<vaspruns_arg, outcars_arg, self_vasprun, self_outcar, useOUTCAR,
              init_out, init_pc>>

pbandVars == <<pb_style, pb_lm, pb_list, pb_result>>

thetaVars == <<th_l, th_mr, th_result>>
grVars == <<g_grid, g_site, g_lmr, g_r_vec, g_cost, g_result>>
w90Vars == <<w_method, w_pc, w_trace, w_lib_log, w_written, w_env, w_setup_out,
             M_matrix_loc, A_matrix_loc, eigenvalues_loc, w_outputs,
             w_outputs_before, w_fresh, w_err, w_ncalls>>
amnVars == <<amn_shape, amn_A, amn_file, amn_read, amn_labels, amn_pc>>
mmnVars == <<mmn_shape, mmn_M, mmn_file, mmn_read, mmn_pc>>
mainVars == <<m_cell, m_cell_type, m_log>>
wfVars == <<wf_num_wann, wf_arg, wf_list, wf_pos, wf_written, wf_pc>>
efVars == <<ef_has, self_efermi, ef_pc>>
ppVars == <<pp_nelec, pp_lsorbit, pp_nbands, pp_given, pp_list, pp_range, pp_pc,
           pp_calls>>
pgVars == <<pg_grid, pg_supercell, pg_order, pg_qv, pg_weights, pg_pc>>
waVars == <<wa_args, wa_attrs, wa_pc>>
vars == <<gapVars, initVars, pbandVars, thetaVars, grVars, w90Vars,
          amnVars, mmnVars, mainVars, wfVars, efVars, ppVars, pgVars,
          waVars>>

-----------------------------------------------------------------------------
(***************************************************************************)
(* Bounds of the model.                                                    *)
(***************************************************************************)
MaxE == 1        \* band energies and Fermi levels are drawn from 0 .. MaxE(+1)
MaxFiles == 3    \* the vaspruns and outcars lists name at most MaxFiles files
MaxStyle == 4    \* the style argument is drawn from 0 .. MaxStyle
MaxCalls == 2    \* calls of kernel and export_AME on one W90 object
MaxOps == 3      \* method calls made on one w90.main object
MaxWfLen == 3   \* the wf_list argument holds at most MaxWfLen ids
MaxWideE == 4   \* band energies of the three-k-point run are 0 .. MaxWideE
MaxBands == 6    \* NBANDS of the plotted run is 1 .. MaxBands
MaxPlots == 3    \* plot_pband calls made with one band_idx list
MaxGrid == 2     \* grid points per axis and cell are 1 .. MaxGrid
MaxSuper == 3    \* cells per axis of the supercell are 1 .. MaxSuper
MaxMp == 2       \* the entries of mp_grid are 1 .. MaxMp
MaxCoord == 1    \* grid and site coordinates are 0 .. MaxCoord, in units of 1e-5

Energies == 0 .. MaxE
\* occupations in tenths: 0.5 (the threshold itself) and 1.0
OccLevels == {5, 10}
\* (ISPIN, number of k-points, NBANDS) of the single-vasprun inputs
OneShapes == {<<1, 1, 2>>, <<1, 2, 2>>, <<1, 3, 2>>, <<2, 1, 2>>,
              <<1, 1, 3>>, <<1, 2, 3>>}
\* (ISPIN, number of k-points of each run, NBANDS) of the vasprun-list inputs
ListShapes == {<<1, <<2>>, 2>>, <<1, <<1, 1>>, 2>>, <<2, <<1>>, 2>>,
               <<1, <<1, 1>>, 3>>}

NoneVal == "None"

-----------------------------------------------------------------------------
(***************************************************************************)
(* Python / numpy helpers.                                                 *)
(***************************************************************************)

\* a[idx] on a sequence of length n is defined for -n <= idx < n
PyIndexOK(n, idx) == (-n <= idx) /\ (idx < n)

\* a[idx]: a negative index counts from the end
PyGet(a, idx) == IF idx < 0 THEN a[Len(a) + idx + 1] ELSE a[idx + 1]

\* np.count_nonzero on a sequence of numbers
CountNonzero(w) == Cardinality({i \in DOMAIN w : w[i] # 0})

\* np.count_nonzero on a sequence of booleans
CountTrue(f) == Cardinality({i \in DOMAIN f : f[i]})

\* a[n:]
DropFirst(a, n) == IF n >= Len(a) THEN <<>> ELSE SubSeq(a, n + 1, Len(a))

\* np.argmax: the (0-based) index of the first maximum
ArgMax(a) == (CHOOSE i \in DOMAIN a :
                 /\ \A j \in DOMAIN a : a[j] <= a[i]
                 /\ \A j \in DOMAIN a : j < i => a[j] < a[i]) - 1

\* np.argmin: the (0-based) index of the first minimum
ArgMin(a) == (CHOOSE i \in DOMAIN a :
                 /\ \A j \in DOMAIN a : a[j] >= a[i]
                 /\ \A j \in DOMAIN a : j < i => a[j] > a[i]) - 1

-----------------------------------------------------------------------------
(***************************************************************************)
(* VASP.get_bandgap                                                        *)
(***************************************************************************)

\* the rows of run i that the list branch keeps: kpts[nonzero:], band[nonzero:]
KeptRows(run) ==
    LET nonzero == CountNonzero(run.weights)
    IN  DropFirst([j \in 1 .. Len(run.weights) |-> j], nonzero)

\* np.vstack over the runs (lines 122-134): the kept rows of every run, in
\* run order, each named <<run, row>>
RECURSIVE StackRuns(_, _)
StackRuns(rs, i) ==
    IF i > Len(rs) THEN <<>>
    ELSE LET kept == KeptRows(rs[i])
         IN  [n \in 1 .. Len(kept) |-> <<i, kept[n]>>] \o StackRuns(rs, i + 1)

\* band < efermi[i], elementwise
BelowFermi(row, ef) == [b \in DOMAIN row |-> row[b] < ef]

\* self.co_occ > 0.5, elementwise (occupations are held in tenths)
AboveHalf(row) == [b \in DOMAIN row |-> row[b] > 5]

\* self.kpts as lines 103 and 138 set it
MergedKpts(md, rs) ==
    IF md = "one" THEN [j \in 1 .. Len(rs[1].weights) |-> <<1, j>>]
    ELSE StackRuns(rs, 1)

\* self.band, self.co_occ, self.co_occ_ as lines 95-140 build them
MergedBand(md, rs, ef, n) ==
    IF md = "one" THEN rs[1].band
    ELSE LET st == StackRuns(rs, 1)
         IN  [s \in 1 .. n |-> [k \in 1 .. Len(st) |-> rs[st[k][1]].band[s][st[k][2]]]]

MergedOcc(md, rs, ef, n) ==
    IF md = "one" THEN rs[1].occ
    ELSE LET st == StackRuns(rs, 1)
         IN  [s \in 1 .. n |-> [k \in 1 .. Len(st) |-> rs[st[k][1]].occ[s][st[k][2]]]]

MergedFlags(md, rs, ef, n) ==
    IF md = "one"
    THEN [s \in 1 .. n |-> [k \in DOMAIN rs[1].occ[s] |-> AboveHalf(rs[1].occ[s][k])]]
    ELSE LET st == StackRuns(rs, 1)
         IN  [s \in 1 .. n |-> [k \in 1 .. Len(st) |->
                 BelowFermi(rs[st[k][1]].band[s][st[k][2]], ef[st[k][1]])]]

\* a slip of line 149: the count itself taken as the index of the valence edge
HomoIdxNoShift(occ) == CountTrue(occ)

\* homo_idx = np.count_nonzero(occ) - 1
HomoIdx(occ) == CountTrue(occ) - 1

\* lumo_idx = homo_idx + 1
LumoIdx(occ) == HomoIdx(occ) + 1

\* lines 151-154 raise IndexError at a k-point whose lumo_idx is out of range
\* (homo_idx = -1 is a valid numpy index: it reads the last band)
EdgeRaises(bk, occ) ==
    \/ ~PyIndexOK(Len(bk), HomoIdx(occ))
    \/ ~PyIndexOK(Len(bk), LumoIdx(occ))

\* bandedge[spin,:,0,0] and bandedge[spin,:,1,0]
HomoEdges(bs, fs) == [k \in DOMAIN bs |-> PyGet(bs[k], HomoIdx(fs[k]))]
LumoEdges(bs, fs) == [k \in DOMAIN bs |-> PyGet(bs[k], LumoIdx(fs[k]))]

\* how the body of the spin loop ends for one spin channel
SpinError(bs, fs) ==
    IF \E k \in DOMAIN bs : EdgeRaises(bs[k], fs[k]) THEN "IndexError"
    ELSE IF Len(bs) = 0 THEN "ValueError"      \* np.argmax of an empty array
    ELSE "none"

\* vbm_idx = np.argmax(bandedge[spin,:,0,0])
VbmIdx(bs, fs) == ArgMax(HomoEdges(bs, fs))

\* cbm_idx = np.argmin(bandedge[spin,:,1,0])
CbmIdx(bs, fs) == ArgMin(LumoEdges(bs, fs))

\* direct = (vbm_idx == cbm_idx)
IsDirect(vbm_idx, cbm_idx) == vbm_idx = cbm_idx

\* lines 156-174 for one spin channel: what is appended and what is printed
SpinReport(bs, fs) ==
    LET homo == HomoEdges(bs, fs)
        lumo == LumoEdges(bs, fs)
        vbm_idx == VbmIdx(bs, fs)
        cbm_idx == CbmIdx(bs, fs)
        gap  == lumo[cbm_idx + 1] - homo[vbm_idx + 1]
        gap1 == lumo[cbm_idx + 1] - homo[cbm_idx + 1]
        gap2 == lumo[vbm_idx + 1] - homo[vbm_idx + 1]
        direct == IsDirect(vbm_idx, cbm_idx)
    IN  [vbm_idx |-> vbm_idx, cbm_idx |-> cbm_idx,
         vbm |-> homo[vbm_idx + 1], cbm |-> lumo[cbm_idx + 1],
         direct |-> direct, bandgap |-> gap,
         direct_gap |-> IF direct THEN gap
                        ELSE IF gap1 > gap2 THEN gap2 ELSE gap1]

\* the spin channels the loop of line 144 completes: all of them, or those
\* before the first one that raises
RECURSIVE SpinsDone(_, _, _)
SpinsDone(b, f, s) ==
    IF s > Len(b) THEN s - 1
    ELSE IF SpinError(b[s], f[s]) # "none" THEN s - 1
    ELSE SpinsDone(b, f, s + 1)

\* self.bandgap carried over from the previous call
BandgapCarriedOver(old) == IF calls = 0 THEN <<>> ELSE old

\* line 143: self.bandgap = [], whatever it held
BandgapAtLoopStart(old) == <<>>

GetBandgap ==
    /\ LET b  == MergedBand(mode, runs, efermi, ispin)
           o  == MergedOcc(mode, runs, efermi, ispin)
           f  == MergedFlags(mode, runs, efermi, ispin)
           nd == SpinsDone(b, f, 1)
       IN  /\ band' = b
           /\ co_occ' = o
           /\ co_occ_' = f
           /\ kpts' = MergedKpts(mode, runs)
           /\ report' = [s \in 1 .. nd |-> SpinReport(b[s], f[s])]
           /\ bandgap' = BandgapAtLoopStart(bandgap)
                          \o [s \in 1 .. nd |-> SpinReport(b[s], f[s]).bandgap]
           /\ gap_err' = IF nd = ispin THEN "none" ELSE SpinError(b[nd + 1], f[nd + 1])
    /\ calls' = IF calls < 2 THEN calls + 1 ELSE calls    \* 2 stands for "twice or more"
    /\ UNCHANGED <<mode, ispin, nbands, runs, efermi>>

\* the band data of a vasprun: [spin][kpt][band]
RowsOf(n, nk, nb, S) == [1 .. n -> [1 .. nk -> [1 .. nb -> S]]]

\* a run of a list: the occupations VASP wrote agree with the run's Fermi level
ListRun(n, nk, nb, ef) ==
    { [weights |-> w, band |-> b,
       occ |-> [s \in 1 .. n |-> [k \in 1 .. nk |->
                  [i \in 1 .. nb |-> IF b[s][k][i] < ef THEN 10 ELSE 0]]]] :
        w \in [1 .. nk -> {0, 1}], b \in RowsOf(n, nk, nb, Energies) }

RECURSIVE RunSeqs(_, _, _, _, _)
RunSeqs(n, nks, nb, ef, i) ==
    IF i > Len(nks) THEN {<<>>}
    ELSE { <<r>> \o rest : r \in ListRun(n, nks[i], nb, ef[i]),
                           rest \in RunSeqs(n, nks, nb, ef, i + 1) }

GapInit ==
    /\ \/ /\ mode = "one"
          /\ \E sh \in OneShapes :
                /\ ispin = sh[1]
                /\ nbands = sh[3]
                /\ \E b \in RowsOf(sh[1], sh[2], sh[3], Energies),
                      o \in RowsOf(sh[1], sh[2], sh[3], OccLevels) :
                      runs = << [weights |-> [j \in 1 .. sh[2] |-> 1],
                                 band |-> b, occ |-> o] >>
          /\ efermi = <<0>>
       \/ /\ mode = "list"
          /\ \E sh \in ListShapes :
                /\ ispin = sh[1]
                /\ nbands = sh[3]
                /\ \E ef \in [1 .. Len(sh[2]) -> 0 .. MaxE + 1] :
                      /\ efermi = ef
                      /\ runs \in RunSeqs(sh[1], sh[2], sh[3], ef, 1)
    /\ band = NoneVal
    /\ co_occ = NoneVal
    /\ co_occ_ = NoneVal
    /\ kpts = NoneVal
    /\ bandgap = NoneVal
    /\ report = <<>>
    /\ gap_err = "none"
    /\ calls = 0

\* one spin-unpolarised vasprun of an insulator on a path of three k-points:
\* two bands per k-point in ascending order, the lower one occupied
WideLevels == 0 .. MaxWideE
WideRows == {r \in RowsOf(1, 3, 2, WideLevels) :
                \A k \in 1 .. 3 : r[1][k][1] <= r[1][k][2]}

GapWideInit ==
    /\ mode = "one"
    /\ ispin = 1
    /\ nbands = 2
    /\ \E b \in WideRows :
          runs = << [weights |-> <<1, 1, 1>>, band |-> b,
                     occ |-> << <<<<10, 0>>, <<10, 0>>, <<10, 0>>>> >>] >>
    /\ efermi = <<0>>
    /\ band = NoneVal
    /\ co_occ = NoneVal
    /\ co_occ_ = NoneVal
    /\ kpts = NoneVal
    /\ bandgap = NoneVal
    /\ report = <<>>
    /\ gap_err = "none"
    /\ calls = 0

\* the state of the band-gap part in the specifications that do not move it
GapIdle ==
    /\ mode = "idle" /\ ispin = 0 /\ nbands = 0 /\ runs = <<>> /\ efermi = <<>>
    /\ band = NoneVal /\ co_occ = NoneVal /\ co_occ_ = NoneVal /\ kpts = NoneVal
    /\ bandgap = NoneVal /\ report = <<>> /\ gap_err = "none" /\ calls = 0

-----------------------------------------------------------------------------
(***************************************************************************)
(* VASP.__init__ on a list of names                                        *)
(***************************************************************************)

\* the items a "for ... if not check_exist: print; break; append" loop appends:
\* the positions before the first missing file
RECURSIVE LoadedPrefix(_, _)
LoadedPrefix(exists, i) ==
    IF i > Len(exists) THEN <<>>
    ELSE IF ~exists[i] THEN <<>>
    ELSE <<i>> \o LoadedPrefix(exists, i + 1)

\* the 'Cannot find:' line such a loop prints: one, for the first missing file
CannotFind(what, exists) ==
    IF \E i \in DOMAIN exists : ~exists[i]
    THEN << <<"Cannot find", what, CHOOSE i \in DOMAIN exists :
                ~exists[i] /\ \A j \in 1 .. i - 1 : exists[j]>> >>
    ELSE <<>>

\* self.get_info(self.vasprun[0]) raises IndexError on an empty list
GetInfoRaises(loaded) == Len(loaded) = 0

VaspInitList ==
    /\ init_pc = "new"
    /\ vaspruns_arg.kind = "list"
    /\ LET loaded == LoadedPrefix(vaspruns_arg.exists, 1)
           found  == CannotFind("xml", vaspruns_arg.exists)
       IN  /\ self_vasprun' = loaded
           /\ IF GetInfoRaises(loaded)
              THEN /\ init_pc' = "IndexError"
                   /\ init_out' = found
                   /\ UNCHANGED <<self_outcar, useOUTCAR>>
              ELSE IF ~outcars_arg.given
              THEN /\ init_pc' = "constructed"
                   /\ init_out' = found
                   /\ UNCHANGED <<self_outcar, useOUTCAR>>
              ELSE IF Len(outcars_arg.exists) # Len(vaspruns_arg.exists)
              THEN /\ init_pc' = "AssertionError"
                   /\ init_out' = found
                   /\ UNCHANGED <<self_outcar, useOUTCAR>>
              ELSE LET oloaded == LoadedPrefix(outcars_arg.exists, 1)
                   IN  /\ init_pc' = "constructed"
                       /\ init_out' = found \o CannotFind("OUTCAR", outcars_arg.exists)
                       /\ self_outcar' = [set |-> TRUE, items |-> oloaded]
                       /\ useOUTCAR' = IF Len(oloaded) > 0 THEN "True" ELSE useOUTCAR
    /\ UNCHANGED <<vaspruns_arg, outcars_arg>>

\* vaspruns is neither a string nor a list: only a message is printed
VaspInitOther ==
    /\ init_pc = "new"
    /\ vaspruns_arg.kind = "other"
    /\ init_pc' = "constructed"
    /\ init_out' = << <<"Provide a string or a list of names for *.xml file">> >>
    /\ UNCHANGED <<vaspruns_arg, outcars_arg, self_vasprun, self_outcar, useOUTCAR>>

ExistsLists == UNION {[1 .. n -> BOOLEAN] : n \in 1 .. MaxFiles}

InitInit ==
    /\ vaspruns_arg \in {[kind |-> "list", exists |-> e] : e \in ExistsLists}
                        \cup {[kind |-> "other", exists |-> <<>>]}
    /\ outcars_arg \in {[given |-> TRUE, exists |-> e] : e \in ExistsLists}
                       \cup {[given |-> FALSE, exists |-> <<>>]}
    /\ self_vasprun = <<>>
    /\ self_outcar = [set |-> FALSE, items |-> <<>>]
    /\ useOUTCAR = "unset"
    /\ init_out = <<>>
    /\ init_pc = "new"

InitIdle ==
    /\ vaspruns_arg = [kind |-> "idle", exists |-> <<>>]
    /\ outcars_arg = [given |-> FALSE, exists |-> <<>>]
    /\ self_vasprun = <<>>
    /\ self_outcar = [set |-> FALSE, items |-> <<>>]
    /\ useOUTCAR = "unset"
    /\ init_out = <<>>
    /\ init_pc = "idle"

-----------------------------------------------------------------------------
(***************************************************************************)
(* VASP._generate_pband: the checking of style and lm                      *)
(*                                                                         *)
(* A Python value handed as lm is a record [type, parts, items]:           *)
(*   type "str":   parts is lm.split(':'), each part split at ','          *)
(*   type "list":  items are the elements, values of the same kind         *)
(*   type "other": anything else (an int, None)                            *)
(* A returned pband is held as its rows, each the orbitals it sums.        *)
(***************************************************************************)
PStr(parts) == [type |-> "str", parts |-> parts, items |-> <<>>]
PList(items) == [type |-> "list", parts |-> <<>>, items |-> items]
POther == [type |-> "other", parts |-> <<>>, items |-> <<>>]
\* a string without ':' and ','
Plain(t) == PStr(<< <<t>> >>)

\* vasprun.lm, as the docstring of lines 346 lists it
lm_list == <<"s", "py", "pz", "px", "dxy", "dyz", "dz2", "dxz", "dx2-y2">>
\* self.atom of the modelled structure
atom_list == <<"Ni", "C">>

POrbs == <<"px", "py", "pz">>
DOrbs == <<"dxy", "dyz", "dz2", "dxz", "dx2-y2">>

\* lm_shortcut of style 1 (line 386) and of style 3 (line 497)
lm_shortcut1 == <<"p", "d", "sp", "ps", "pd", "dp", "sd", "ds", "spd", "sdp",
                  "psd", "pds", "dsp", "dps">>
lm_shortcut3 == <<"sp", "sd", "pd">>

Elems(q) == {q[i] : i \in DOMAIN q}

IsPlain(v) == v.type = "str" /\ Len(v.parts) = 1 /\ Len(v.parts[1]) = 1

\* v in L, for a list L of strings
InStrList(v, L) == IsPlain(v) /\ v.parts[1][1] \in Elems(L)

\* a slip of lines 392-421: the groups always in the order s, p, d
ExpandShortcutSorted(t) ==
    CASE t \in {"p"}                -> <<POrbs>>
      [] t \in {"d"}                -> <<DOrbs>>
      [] t \in {"sp", "ps"}         -> << <<"s">>, POrbs >>
      [] t \in {"sd", "ds"}         -> << <<"s">>, DOrbs >>
      [] t \in {"pd", "dp"}         -> << POrbs, DOrbs >>
      [] t \in {"spd", "sdp", "psd", "pds", "dsp", "dps"}
                                    -> << <<"s">>, POrbs, DOrbs >>
      [] OTHER                      -> << <<t>> >>

\* lines 392-421 and 502-507: the groups a string lm stands for
ExpandShortcut(t) ==
    CASE t = "p"   -> <<POrbs>>
      [] t = "d"   -> <<DOrbs>>
      [] t = "sp"  -> << <<"s">>, POrbs >>
      [] t = "ps"  -> << POrbs, <<"s">> >>
      [] t = "sd"  -> << <<"s">>, DOrbs >>
      [] t = "ds"  -> << DOrbs, <<"s">> >>
      [] t = "pd"  -> << POrbs, DOrbs >>
      [] t = "dp"  -> << DOrbs, POrbs >>
      [] t = "spd" -> << <<"s">>, POrbs, DOrbs >>
      [] t = "sdp" -> << <<"s">>, DOrbs, POrbs >>
      [] t = "psd" -> << POrbs, <<"s">>, DOrbs >>
      [] t = "pds" -> << POrbs, DOrbs, <<"s">> >>
      [] t = "dsp" -> << DOrbs, <<"s">>, POrbs >>
      [] t = "dps" -> << DOrbs, POrbs, <<"s">> >>
      [] OTHER     -> << <<t>> >>

\* the group of one element of a list lm: a string, or a list of strings
GroupOf(item) ==
    IF item.type = "str" THEN << item.parts[1][1] >>
    ELSE [n \in DOMAIN item.items |-> item.items[n].parts[1][1]]

\* lines 423-430 and 512-519: how checking the elements of a list lm ends
RECURSIVE CheckItems(_, _)
CheckItems(items, i) ==
    IF i > Len(items) THEN "ok"
    ELSE LET it == items[i]
         IN  IF it.type = "str"
             THEN IF InStrList(it, lm_list) THEN CheckItems(items, i + 1)
                  ELSE "Exception"
             ELSE IF it.type = "other" THEN "TypeError"    \* for orb in <int>
             ELSE IF \E n \in DOMAIN it.items : ~InStrList(it.items[n], lm_list)
                  THEN "Exception"
                  ELSE CheckItems(items, i + 1)

Raised(e) == [out |-> e, rows |-> <<>>]
Returned(rows) == [out |-> "pband", rows |-> rows]

\* lines 385-448
PbandStyle1(lm) ==
    IF lm.type = "str"
    THEN IF ~InStrList(lm, lm_list) /\ ~InStrList(lm, lm_shortcut1)
         THEN Raised("Exception")
         ELSE Returned(ExpandShortcut(lm.parts[1][1]))
    ELSE IF lm.type = "list"
    THEN IF CheckItems(lm.items, 1) # "ok" THEN Raised(CheckItems(lm.items, 1))
         ELSE Returned([n \in DOMAIN lm.items |-> GroupOf(lm.items[n])])
    ELSE Raised("Exception")

\* lines 455-461: 'p' and 'd' stand for their orbitals
RECURSIVE ExpandOrbs(_, _)
ExpandOrbs(toks, i) ==
    IF i > Len(toks) THEN <<>>
    ELSE (IF toks[i] = "p" THEN POrbs
          ELSE IF toks[i] = "d" THEN DOrbs
          ELSE <<toks[i]>>) \o ExpandOrbs(toks, i + 1)

\* lines 452 and 470: atom, lm_ = orb.split(':')
SplitError(orb) ==
    IF orb.type # "str" THEN "AttributeError"      \* no split on a list or an int
    ELSE IF Len(orb.parts) # 2 THEN "ValueError"   \* unpacking into two names
    ELSE "ok"

\* lines 486-493 for one 'atom:orbitals' entry
EntryError(orb) ==
    IF \E t \in Elems(ExpandOrbs(orb.parts[2], 1)) : t \notin Elems(lm_list)
    THEN "ValueError"                              \* lm_list.index(lm)
    ELSE IF orb.parts[1][1] \notin Elems(atom_list)
    THEN "TypeError"                               \* proj_val_atom stays the int 0
    ELSE "ok"

\* the first error, in list order, of a sequence of per-entry outcomes
FirstError(errs) ==
    IF \A i \in DOMAIN errs : errs[i] = "ok" THEN "ok"
    ELSE errs[CHOOSE i \in DOMAIN errs :
                 /\ errs[i] # "ok"
                 /\ \A j \in 1 .. i - 1 : errs[j] = "ok"]

\* lines 450-494
PbandStyle2(lm, selfIsList) ==
    IF lm.type = "other" THEN Raised("NameError")      \* atoms is never bound
    ELSE LET entries == IF lm.type = "str" THEN <<lm>> ELSE lm.items
             split == FirstError([n \in DOMAIN entries |-> SplitError(entries[n])])
             entry == FirstError([n \in DOMAIN entries |-> EntryError(entries[n])])
         IN  IF lm.type = "list" /\ selfIsList
             THEN Raised("AttributeError")             \* self.vasprun.atom on a list
             ELSE IF split # "ok" THEN Raised(split)
             ELSE IF entry # "ok" THEN Raised(entry)
             ELSE Returned([n \in DOMAIN entries |->
                     <<entries[n].parts[1][1]>> \o ExpandOrbs(entries[n].parts[2], 1)])

\* lines 496-537
PbandStyle3(lm) ==
    IF lm.type = "str"
    THEN IF ~InStrList(lm, lm_shortcut3) THEN Raised("Exception")
         ELSE Returned(ExpandShortcut(lm.parts[1][1]))
    ELSE IF lm.type = "list"
    THEN IF Len(lm.items) # 2 THEN Raised("AssertionError")
         ELSE IF CheckItems(lm.items, 1) # "ok" THEN Raised(CheckItems(lm.items, 1))
         ELSE Returned([n \in DOMAIN lm.items |-> GroupOf(lm.items[n])])
    ELSE Raised("Exception")

\* lines 385, 450, 496, 538-541: the dispatch on style
GeneratePbandResult(style, lm, selfIsList) ==
    IF style = 1 THEN PbandStyle1(lm)
    ELSE IF style = 2 THEN PbandStyle2(lm, selfIsList)
    ELSE IF style = 3 THEN PbandStyle3(lm)
    ELSE Raised("Exception")

GeneratePband ==
    /\ pb_result.out = "not called"
    /\ pb_result' = GeneratePbandResult(pb_style, pb_lm, pb_list)
    /\ UNCHANGED <<pb_style, pb_lm, pb_list>>

\* the lm arguments of the model
LmLabels == {Plain(t) : t \in Elems(lm_list)}
LmShortcuts == {Plain(t) : t \in Elems(lm_shortcut1)}
LmAtomOrbs == {PStr(<< <<"Ni">>, <<"s">> >>), PStr(<< <<"Ni">>, <<"s", "p", "d">> >>),
               PStr(<< <<"C">>, <<"s", "px", "pz">> >>)}
LmLists == {PList(<<Plain("s"), PList(<<Plain("px"), Plain("dx2-y2")>>)>>),
            PList(<<Plain("s")>>),
            PList(<<Plain("s"), Plain("px"), Plain("py")>>),
            PList(<<PStr(<< <<"Ni">>, <<"s">> >>), PStr(<< <<"C">>, <<"s", "px", "pz">> >>)>>)}
\* arguments that are none of the above
LmMalformed == {Plain("xx"), Plain("Ni"), Plain(""), Plain("f"),
                PStr(<< <<"Ni">>, <<"xx">> >>), PStr(<< <<"Xx">>, <<"s">> >>),
                PStr(<< <<"Ni">>, <<"s">>, <<"px">> >>),
                PList(<<Plain("xx")>>), PList(<<Plain("s"), PList(<<Plain("xx")>>)>>),
                PList(<<Plain("Ni")>>),
                PList(<<Plain("xx"), Plain("yy"), Plain("zz")>>),
                POther}
\* a list holding something that is neither a string nor a list
LmOdd == {PList(<<Plain("s"), POther>>)}
LmArgs == LmLabels \cup LmShortcuts \cup LmAtomOrbs \cup LmLists \cup LmMalformed
          \cup LmOdd

PbandInit ==
    /\ pb_style \in 0 .. MaxStyle
    /\ pb_lm \in LmArgs
    /\ pb_list \in BOOLEAN
    /\ pb_result = [out |-> "not called", rows |-> <<>>]

PbandIdle ==
    /\ pb_style = 0
    /\ pb_lm = POther
    /\ pb_list = FALSE
    /\ pb_result = [out |-> "idle", rows |-> <<>>]

-----------------------------------------------------------------------------
(***************************************************************************)
(* pywannier90_vasp.theta_lmr: the orbital table                           *)
(*                                                                         *)
(* The angular functions themselves are real-valued expressions of cost    *)
(* and phi; the model keeps which branch of the if/elif chain is taken and *)
(* how the evaluation of that branch ends.                                 *)
(***************************************************************************)

\* lines 182-183: the values the two asserts accept
LAccepted == {0, 1, 2, 3, -1, -2, -3, -4, -5}
MrAccepted == 1 .. 7

\* lines 187-260: the branches written for each l # 0, in the order of mr
Branches(l) ==
    CASE l = 1  -> <<"pz", "px", "py">>
      [] l = 2  -> <<"dz2", "dxz", "dyz", "dx2-y2", "pxy">>
      [] l = 3  -> <<"fz3", "fxz2", "fyz2", "fz(x2-y2)", "fxyz", "fx(x2-3y2)",
                     "fy(3x2-y2)">>
      [] l = -1 -> <<"sp-1", "sp-2">>
      [] l = -2 -> <<"sp2-1", "sp2-2", "sp2-3">>
      [] l = -3 -> <<"sp3-1", "sp3-2", "sp3-3", "sp3-4">>
      [] l = -4 -> <<"sp3d-1", "sp3d-2", "sp3d-3", "sp3d-4", "sp3d-5">>
      [] l = -5 -> <<"sp3d2-1", "sp3d2-2", "sp3d2-3", "sp3d2-4", "sp3d2-5",
                     "sp3d2-6">>
      [] OTHER  -> <<>>

\* lines 185-260: the branch the chain takes; the first test is l == 0 alone
ThetaBranch(l, mr) ==
    IF l = 0 THEN "s"
    ELSE IF mr \in DOMAIN Branches(l) THEN Branches(l)[mr]
    ELSE "none"

\* lines 242 and 244: "1/np.sqrt(2) (theta(...) + theta(...))" calls a float
CallsAFloat(branch) == branch \in {"sp3d-4", "sp3d-5"}

\* lines 177-262
ThetaLmr(l, mr) ==
    IF l \notin LAccepted THEN [out |-> "AssertionError", branch |-> "none"]
    ELSE IF mr \notin MrAccepted THEN [out |-> "AssertionError", branch |-> "none"]
    ELSE LET b == ThetaBranch(l, mr)
         IN  IF b = "none" THEN [out |-> "UnboundLocalError", branch |-> b]
             ELSE IF CallsAFloat(b) THEN [out |-> "TypeError", branch |-> b]
             ELSE [out |-> "returned", branch |-> b]

\* the arguments of the model: every accepted value and some beyond
LArgs == -7 .. 5
MrArgs == -1 .. 9

ThetaLmrCall ==
    /\ th_result.out = "not called"
    /\ th_result' = ThetaLmr(th_l, th_mr)
    /\ UNCHANGED <<th_l, th_mr>>

ThetaInit ==
    /\ th_l \in LArgs
    /\ th_mr \in MrArgs
    /\ th_result = [out |-> "not called", branch |-> "none"]

ThetaIdle ==
    /\ th_l = 0
    /\ th_mr = 0
    /\ th_result = [out |-> "idle", branch |-> "none"]

-----------------------------------------------------------------------------
(***************************************************************************)
(* pywannier90_vasp.g_r: the radius vectors and the division by r_norm     *)
(*                                                                         *)
(* Coordinates are integers in units of 1e-5, the offset of line 285, and  *)
(* the axes are the default ones.  A difference of two such coordinates is *)
(* either 0 or at least 1e-5 in size, so "r_norm < 1e-8" is "r_vec = 0".   *)
(***************************************************************************)

\* lines 52-69 with x_axis = [1,0,0], z_axis = [0,0,1]: y_vec = x cross z is
\* [0,-1,0], so the matrix is diag(1,-1,1)
transform(v) == <<v[1], 0 - v[2], v[3]>>

\* lines 281-282 and 285-286: one row of r_vec
RVec(point, site, offset) ==
    transform(<<point[1] - site[1] - offset,
                point[2] - site[2] - offset,
                point[3] - site[3] - offset>>)

\* np.linalg.norm(r_vec, axis=1), squared
Norm2(v) == v[1] * v[1] + v[2] * v[2] + v[3] * v[3]

\* line 284: (r_norm < 1e-8).any()
AnyNearZero(grid, site) ==
    \E i \in DOMAIN grid : Norm2(RVec(grid[i], site, 0)) = 0

\* lines 281-287: r_vec as line 288 finds it
FinalRVec(grid, site) ==
    LET offset == IF AnyNearZero(grid, site) THEN 1 ELSE 0
    IN  [i \in DOMAIN grid |-> RVec(grid[i], site, offset)]

\* line 288: cost = r_vec[:,2]/r_norm, an array division: 0/0 gives nan
Cost(r_vec) ==
    [i \in DOMAIN r_vec |->
        IF Norm2(r_vec[i]) = 0 THEN "nan" ELSE "number"]

\* lines 265-299
GR ==
    /\ g_result = "not called"
    /\ g_r_vec' = FinalRVec(g_grid, g_site)
    /\ g_cost' = Cost(FinalRVec(g_grid, g_site))
    /\ g_result' = ThetaLmr(g_lmr[1], g_lmr[2]).out
    /\ UNCHANGED <<g_grid, g_site, g_lmr>>

Points == [1 .. 3 -> 0 .. MaxCoord]
\* grids of two points
Grids == Points \X Points
\* (l, mr) of the projections g_r is called with
GrOrbitals == {<<0, 1>>, <<1, 2>>, <<-4, 4>>}

GrInit ==
    /\ g_grid \in Grids
    /\ g_site \in Points
    /\ g_lmr \in GrOrbitals
    /\ g_r_vec = <<>>
    /\ g_cost = <<>>
    /\ g_result = "not called"

GrIdle ==
    /\ g_grid = <<>>
    /\ g_site = <<0, 0, 0>>
    /\ g_lmr = <<0, 0>>
    /\ g_r_vec = <<>>
    /\ g_cost = <<>>
    /\ g_result = "idle"

-----------------------------------------------------------------------------
(***************************************************************************)
(* W90: kernel, setup, run and export_AME                                  *)
(*                                                                         *)
(* A call of kernel or export_AME advances one statement of its body per   *)
(* step; w_pc names the statement about to run.  libwannier90 is external: *)
(* each of its two entry points either returns or raises.  Neither kernel  *)
(* nor export_AME has a try block, so an exception ends the call.          *)
(***************************************************************************)

NoneOutputs ==
    [U_matrix |-> 0, U_matrix_opt |-> 0, lwindow |-> 0, wann_centres |-> 0,
     wann_spreads |-> 0, spread |-> 0]

\* lines 595-601: the six attributes set from what libwannier90.run returned
\* in the n-th call
OutputsOfRun(n) ==
    [U_matrix |-> n, U_matrix_opt |-> n, lwindow |-> n, wann_centres |-> n,
     wann_spreads |-> n, spread |-> n]

\* the outputs assigned although the library raised
OutputsAssignedEarly(old, new, ok) == new

\* lines 588-601: the assignments follow the library call, so they happen
\* only when it returned
OutputsAfterRun(old, new, ok) == IF ok THEN new ELSE old

\* the statements of kernel without read_M_mat
KernelAfterNoReadM(step) ==
    CASE step = "make_win"        -> "setup"
      [] step = "setup"           -> "read_A_mat"
      [] step = "read_A_mat"      -> "get_epsilon_mat"
      [] step = "get_epsilon_mat" -> "run"
      [] OTHER                    -> "returned"

\* lines 378-383: the statement after each statement of kernel
KernelAfter(step) ==
    CASE step = "make_win"        -> "setup"
      [] step = "setup"           -> "read_M_mat"
      [] step = "read_M_mat"      -> "read_A_mat"
      [] step = "read_A_mat"      -> "get_epsilon_mat"
      [] step = "get_epsilon_mat" -> "run"
      [] OTHER                    -> "returned"

\* lines 627-663: the statement after each statement of export_AME
ExportAfter(step) ==
    CASE step = "make_win"        -> "setup"
      [] step = "setup"           -> "get_M_mat"
      [] step = "get_M_mat"       -> "get_A_mat"
      [] step = "get_A_mat"       -> "get_epsilon_mat"
      [] step = "get_epsilon_mat" -> "export_unk"
      [] step = "export_unk"      -> "write_files"
      [] OTHER                    -> "returned"

\* the methods called on their own: the statement after the method's body is
\* the return to the caller
DirectMethods == {"make_win", "setup", "read_M_mat", "read_A_mat", "get_M_mat",
                  "get_A_mat", "get_epsilon_mat", "run"}

After(step) ==
    IF w_method = "kernel" THEN KernelAfter(step)
    ELSE IF w_method = "export_AME" THEN ExportAfter(step)
    ELSE "returned"

\* lines 380-382 and 630-632: kernel and export_AME assign what the reader or
\* builder returns; a call made on its own returns it to the caller
Assigned(old) == IF w_method \in {"kernel", "export_AME"} THEN "ndarray" ELSE old

\* lines 428, 441-443, 475, 513: the sizes setup assigns are used; while they
\* are None, np.empty (or the product of line 441) raises TypeError
SizesKnown == w_setup_out = "set"

AtRest == w_pc \in {"ready", "returned", "raised"}

\* what a statement leaves alone besides the attributes it assigns
Advance(step) ==
    /\ w_pc' = After(step)
    /\ w_trace' = Append(w_trace, step)
    /\ w_err' = "none"

Raise(step, exc) ==
    /\ w_pc' = "raised"
    /\ w_trace' = Append(w_trace, step)
    /\ w_err' = exc

\* the record of one library call: what had been done when it was made, and
\* whether it returned
LibCall(fn, ok) ==
    [fn |-> fn, ok |-> ok, win |-> "wannier90.win" \in w_written,
     setup_out |-> w_setup_out, M |-> M_matrix_loc, A |-> A_matrix_loc, eig |-> eigenvalues_loc]

StartCall(method) ==
    /\ AtRest
    /\ w_ncalls < MaxCalls
    /\ w_ncalls' = w_ncalls + 1
    /\ w_method' = method
    /\ w_trace' = <<>>
    /\ w_lib_log' = <<>>
    /\ w_written' = {}
    /\ w_err' = "none"
    /\ w_outputs_before' = w_outputs
    /\ w_fresh' = (A_matrix_loc = NoneVal)
    /\ UNCHANGED <<w_env, w_setup_out, M_matrix_loc, A_matrix_loc,
                   eigenvalues_loc, w_outputs>>

\* line 374
KernelCall ==
    /\ StartCall("kernel")
    /\ w_pc' = "make_win"

\* one of the methods kernel and export_AME are made of, called on its own
DirectCall ==
    \E method \in DirectMethods :
        /\ StartCall(method)
        /\ w_pc' = method

\* lines 622-627
ExportAMECall ==
    /\ StartCall("export_AME")
    /\ w_pc' = IF A_matrix_loc = NoneVal THEN "make_win" ELSE "write_files"

\* lines 385-419
MakeWin ==
    /\ w_pc = "make_win"
    /\ Advance("make_win")
    /\ w_written' = w_written \cup {"wannier90.win"}
    /\ UNCHANGED <<w_method, w_lib_log, w_env, w_setup_out, M_matrix_loc,
                   A_matrix_loc, eigenvalues_loc, w_outputs, w_outputs_before,
                   w_fresh, w_ncalls>>

\* lines 539-568
Setup ==
    /\ w_pc = "setup"
    /\ \E ok \in BOOLEAN :
          /\ w_lib_log' = Append(w_lib_log, LibCall("libwannier90.setup", ok))
          /\ IF ok
             THEN Advance("setup") /\ w_setup_out' = "set"
             ELSE Raise("setup", "LibraryError") /\ UNCHANGED w_setup_out
    /\ UNCHANGED <<w_method, w_written, w_env, M_matrix_loc, A_matrix_loc,
                   eigenvalues_loc, w_outputs, w_outputs_before, w_fresh,
                   w_ncalls>>

\* lines 380 and 440-466: open("wannier90.vasp.mmn")
ReadMMat ==
    /\ w_pc = "read_M_mat"
    /\ IF ~SizesKnown
       THEN Raise("read_M_mat", "TypeError") /\ UNCHANGED M_matrix_loc
       ELSE IF w_env.mmn
       THEN Advance("read_M_mat") /\ M_matrix_loc' = Assigned(M_matrix_loc)
       ELSE Raise("read_M_mat", "FileNotFoundError") /\ UNCHANGED M_matrix_loc
    /\ UNCHANGED <<w_method, w_lib_log, w_written, w_env, w_setup_out,
                   A_matrix_loc, eigenvalues_loc, w_outputs, w_outputs_before,
                   w_fresh, w_ncalls>>

\* lines 381 and 512-530: open("wannier90.vasp.amn")
ReadAMat ==
    /\ w_pc = "read_A_mat"
    /\ IF ~SizesKnown
       THEN Raise("read_A_mat", "TypeError") /\ UNCHANGED A_matrix_loc
       ELSE IF w_env.amn
       THEN Advance("read_A_mat") /\ A_matrix_loc' = Assigned(A_matrix_loc)
       ELSE Raise("read_A_mat", "FileNotFoundError") /\ UNCHANGED A_matrix_loc
    /\ UNCHANGED <<w_method, w_lib_log, w_written, w_env, w_setup_out,
                   M_matrix_loc, eigenvalues_loc, w_outputs, w_outputs_before,
                   w_fresh, w_ncalls>>

\* lines 630 and 421-438
GetMMat ==
    /\ w_pc = "get_M_mat"
    /\ IF SizesKnown
       THEN Advance("get_M_mat") /\ M_matrix_loc' = Assigned(M_matrix_loc)
       ELSE Raise("get_M_mat", "TypeError") /\ UNCHANGED M_matrix_loc
    /\ UNCHANGED <<w_method, w_lib_log, w_written, w_env, w_setup_out,
                   A_matrix_loc, eigenvalues_loc, w_outputs, w_outputs_before,
                   w_fresh, w_ncalls>>

\* lines 631 and 468-510
GetAMat ==
    /\ w_pc = "get_A_mat"
    /\ IF SizesKnown
       THEN Advance("get_A_mat") /\ A_matrix_loc' = Assigned(A_matrix_loc)
       ELSE Raise("get_A_mat", "TypeError") /\ UNCHANGED A_matrix_loc
    /\ UNCHANGED <<w_method, w_lib_log, w_written, w_env, w_setup_out,
                   M_matrix_loc, eigenvalues_loc, w_outputs, w_outputs_before,
                   w_fresh, w_ncalls>>

\* lines 382, 632 and 532-537
GetEpsilonMat ==
    /\ w_pc = "get_epsilon_mat"
    /\ Advance("get_epsilon_mat")
    /\ eigenvalues_loc' = Assigned(eigenvalues_loc)
    /\ UNCHANGED <<w_method, w_lib_log, w_written, w_env, w_setup_out,
                   M_matrix_loc, A_matrix_loc, w_outputs, w_outputs_before,
                   w_fresh, w_ncalls>>

\* line 575 alone: type(self.num_wann_loc) != None holds for every value
RunAssertsFirstOnly == TRUE

\* lines 576-578: the three asserts that can fail (line 575 compares a type
\* with None and always passes)
RunAsserts ==
    /\ M_matrix_loc = "ndarray"
    /\ A_matrix_loc = "ndarray"
    /\ eigenvalues_loc = "ndarray"

\* lines 570-601
Run ==
    /\ w_pc = "run"
    /\ IF ~RunAsserts
       THEN /\ Raise("run", "AssertionError")
            /\ UNCHANGED <<w_lib_log, w_outputs>>
       ELSE \E ok \in BOOLEAN :
                  /\ w_lib_log' = Append(w_lib_log, LibCall("libwannier90.run", ok))
                  /\ IF ok THEN Advance("run") ELSE Raise("run", "LibraryError")
                  /\ w_outputs' =
                        OutputsAfterRun(w_outputs, OutputsOfRun(w_ncalls), ok)
    /\ UNCHANGED <<w_method, w_written, w_env, w_setup_out, M_matrix_loc,
                   A_matrix_loc, eigenvalues_loc, w_outputs_before, w_fresh,
                   w_ncalls>>

\* line 633: self.export_unk(self, grid = grid) binds self to grid and passes
\* grid again by keyword, so the call raises before export_unk's body runs
ExportUnk ==
    /\ w_pc = "export_unk"
    /\ Raise("export_unk", "TypeError")
    /\ UNCHANGED <<w_method, w_lib_log, w_written, w_env, w_setup_out,
                   M_matrix_loc, A_matrix_loc, eigenvalues_loc, w_outputs,
                   w_outputs_before, w_fresh, w_ncalls>>

\* lines 635-663: num_bands_loc, nn_list and the three arrays are used
CanWrite ==
    /\ w_setup_out = "set"
    /\ M_matrix_loc = "ndarray"
    /\ A_matrix_loc = "ndarray"
    /\ eigenvalues_loc = "ndarray"

\* lines 635-663
WriteFiles ==
    /\ w_pc = "write_files"
    /\ IF CanWrite
       THEN /\ Advance("write_files")
            /\ w_written' = w_written \cup
                   {"wannier90.mmn", "wannier90.amn", "wannier90.eig"}
       ELSE /\ Raise("write_files", "TypeError")
            /\ UNCHANGED w_written
    /\ UNCHANGED <<w_method, w_lib_log, w_env, w_setup_out, M_matrix_loc,
                   A_matrix_loc, eigenvalues_loc, w_outputs, w_outputs_before,
                   w_fresh, w_ncalls>>

\* lines 303-371: the object as __init__ leaves it; w_env tells which of
\* wannier90.vasp.mmn and wannier90.vasp.amn are in the directory
W90Init ==
    /\ w_method = "none"
    /\ w_pc = "ready"
    /\ w_trace = <<>>
    /\ w_lib_log = <<>>
    /\ w_written = {}
    /\ w_env \in [mmn : BOOLEAN, amn : BOOLEAN]
    /\ w_setup_out = NoneVal
    /\ M_matrix_loc = NoneVal
    /\ A_matrix_loc = NoneVal
    /\ eigenvalues_loc = NoneVal
    /\ w_outputs = NoneOutputs
    /\ w_outputs_before = NoneOutputs
    /\ w_fresh = TRUE
    /\ w_err = "none"
    /\ w_ncalls = 0

W90Idle ==
    /\ w_method = "none"
    /\ w_pc = "idle"
    /\ w_trace = <<>>
    /\ w_lib_log = <<>>
    /\ w_written = {}
    /\ w_env = [mmn |-> FALSE, amn |-> FALSE]
    /\ w_setup_out = NoneVal
    /\ M_matrix_loc = NoneVal
    /\ A_matrix_loc = NoneVal
    /\ eigenvalues_loc = NoneVal
    /\ w_outputs = NoneOutputs
    /\ w_outputs_before = NoneOutputs
    /\ w_fresh = TRUE
    /\ w_err = "none"
    /\ w_ncalls = 0

-----------------------------------------------------------------------------
(***************************************************************************)
(* The .amn file: export_AME writes it, read_A_mat reads it                *)
(*                                                                         *)
(* A is indexed [k_id, ith_wann, band] from 0, as in the code.  An entry   *)
(* is <<re, im>>, each an integer in units of 1e-19.  The text "%22.18f"   *)
(* prints has 18 decimals: it is modelled as an integer in units of 1e-18. *)
(* export_AME names the file wannier90.amn and read_A_mat opens            *)
(* wannier90.vasp.amn; ReadAMatBack reads the file ExportAmn wrote, as     *)
(* after a rename.                                                         *)
(***************************************************************************)

\* "%22.18f" % x: x rounded to 18 decimals (no model value lies half-way)
Format18(x) == (x + 5) \div 10

\* float(text) of a text with 18 decimals
Parse18(t) == t * 10

\* read_A_mat indexing lines with the strides of ith_wann and band exchanged
LineIndexSwapped(i, j, k, num_wann, num_bands) ==
    i * num_wann * num_bands + k * num_wann + j

\* lines 526-527: the index into lines of entry [i, j, k]
LineIndex(i, j, k, num_wann, num_bands) ==
    i * num_wann * num_bands + j * num_bands + k

\* line 658: the fields of one data line
DataLine(A, k_id, ith_wann, bnd) ==
    <<bnd + 1, ith_wann + 1, k_id + 1,
      Format18(A[<<k_id, ith_wann, bnd>>][1]),
      Format18(A[<<k_id, ith_wann, bnd>>][2])>>

\* lines 655-658: the lines the three nested loops write from (k_id,
\* ith_wann, bnd) on
RECURSIVE DataLines(_, _, _, _, _)
DataLines(A, shape, k_id, ith_wann, bnd) ==
    IF k_id = shape[1] THEN <<>>
    ELSE IF ith_wann = shape[2] THEN DataLines(A, shape, k_id + 1, 0, 0)
    ELSE IF bnd = shape[3] THEN DataLines(A, shape, k_id, ith_wann + 1, 0)
    ELSE <<DataLine(A, k_id, ith_wann, bnd)>>
         \o DataLines(A, shape, k_id, ith_wann, bnd + 1)

\* lines 651-658: the file, two header lines first
AmnFile(A, shape) ==
    << <<shape[3] * shape[1] * shape[2]>>, <<shape[3], shape[1], shape[2]>> >>
    \o DataLines(A, shape, 0, 0, 0)

\* lines 515-521: two readline() calls, then num_data lines
LinesRead(file, shape) ==
    [n \in 1 .. shape[1] * shape[2] * shape[3] |-> file[n + 2]]

Indices(shape) ==
    {<<i, j, k>> : i \in 0 .. shape[1] - 1, j \in 0 .. shape[2] - 1,
                   k \in 0 .. shape[3] - 1}

\* lines 523-528: the line used for entry [i, j, k] (lines is 0-based)
LineOf(file, shape, i, j, k) ==
    LinesRead(file, shape)[LineIndex(i, j, k, shape[2], shape[3]) + 1]

\* lines 512-530
ReadAMatrix(file, shape) ==
    [ix \in Indices(shape) |->
        LET line == LineOf(file, shape, ix[1], ix[2], ix[3])
        IN  <<Parse18(line[4]), Parse18(line[5])>>]

\* the labels (first three fields) of the line used for each entry
LabelsRead(file, shape) ==
    [ix \in Indices(shape) |->
        LET line == LineOf(file, shape, ix[1], ix[2], ix[3])
        IN  <<line[1], line[2], line[3]>>]

ExportAmn ==
    /\ amn_pc = "new"
    /\ amn_file' = AmnFile(amn_A, amn_shape)
    /\ amn_pc' = "exported"
    /\ UNCHANGED <<amn_shape, amn_A, amn_read, amn_labels>>

ReadAMatBack ==
    /\ amn_pc = "exported"
    /\ amn_read' = ReadAMatrix(amn_file, amn_shape)
    /\ amn_labels' = LabelsRead(amn_file, amn_shape)
    /\ amn_pc' = "read"
    /\ UNCHANGED <<amn_shape, amn_A, amn_file>>

\* (num_kpts, num_wann, num_bands)
AmnShapes == {<<2, 1, 2>>, <<2, 2, 1>>, <<1, 2, 3>>, <<1, 3, 2>>, <<2, 2, 2>>}
\* entries: zero, one with 18 decimals at most, one with 19
AmnValues == {<<0, 0>>, <<10, -30>>, <<4, -16>>}

AmnInit ==
    /\ amn_shape \in AmnShapes
    /\ amn_A \in [Indices(amn_shape) -> AmnValues]
    /\ amn_file = <<>>
    /\ amn_read = <<>>
    /\ amn_labels = <<>>
    /\ amn_pc = "new"

AmnIdle ==
    /\ amn_shape = <<0, 0, 0>>
    /\ amn_A = <<>>
    /\ amn_file = <<>>
    /\ amn_read = <<>>
    /\ amn_labels = <<>>
    /\ amn_pc = "idle"

-----------------------------------------------------------------------------
(***************************************************************************)
(* The .mmn file: export_AME writes it, read_M_mat reads it                *)
(*                                                                         *)
(* M is indexed [k_id, nn, n, m] from 0.  Entries and the printed text are *)
(* as in the .amn file.  export_AME names the file wannier90.mmn and       *)
(* read_M_mat opens wannier90.vasp.mmn; ReadMMatBack reads the file        *)
(* ExportMmn wrote, as after a rename.                                     *)
(***************************************************************************)

\* self.nn_list[nn, k_id, 0:4]: the neighbour k-point (1-based) and the
\* reciprocal lattice vector, as libwannier90.setup returned them
nn_list(nn, k_id, num_kpts) == <<((k_id + nn + 1) % num_kpts) + 1, 0, 0, nn>>

\* line 645: the index line of one block
IndexLine(k_id, nn, num_kpts) ==
    <<k_id + 1>> \o nn_list(nn, k_id, num_kpts)

\* lines 646-648: M_matrix_loc[k_id, nn].flatten(order='C') written entry by
\* entry; m runs over range(nband2), the entry is [m // nb, m % nb]
RECURSIVE ValueLines(_, _, _, _, _)
ValueLines(M, k_id, nn, num_bands, m) ==
    IF m = num_bands * num_bands THEN <<>>
    ELSE LET z == M[<<k_id, nn, m \div num_bands, m % num_bands>>]
         IN  << <<Format18(z[1]), Format18(z[2])>> >>
             \o ValueLines(M, k_id, nn, num_bands, m + 1)

\* lines 640-648: the blocks the two nested loops write from (k_id, nn) on
RECURSIVE Blocks(_, _, _, _)
Blocks(M, shape, k_id, nn) ==
    IF k_id = shape[1] THEN <<>>
    ELSE IF nn = shape[2] THEN Blocks(M, shape, k_id + 1, 0)
    ELSE <<IndexLine(k_id, nn, shape[1])>>
         \o ValueLines(M, k_id, nn, shape[3], 0)
         \o Blocks(M, shape, k_id, nn + 1)

\* lines 636-648: the file, two header lines first
MmnFile(M, shape) ==
    << <<"Generated by the pyWannier90">>, <<shape[3], shape[1], shape[2]>> >>
    \o Blocks(M, shape, 0, 0)

\* lines 445-453: two readline() calls, then for each of the num_mmn blocks
\* one readline() for the index line and num_bands^2 lines kept; pos is the
\* number of lines consumed so far
RECURSIVE MLinesKept(_, _, _, _)
MLinesKept(file, num_bands, nkp_left, pos) ==
    IF nkp_left = 0 THEN <<>>
    ELSE [n \in 1 .. num_bands * num_bands |-> file[pos + 1 + n]]
         \o MLinesKept(file, num_bands, nkp_left - 1,
                       pos + 1 + num_bands * num_bands)

\* read_M_mat indexing lines with n and m exchanged
MLineIndexTransposed(k_id, nn, n, m, nntot, num_bands) ==
    k_id * (num_bands * num_bands * nntot) + nn * (num_bands * num_bands)
    + m * num_bands + n

\* lines 455-462: k_id*M3 + nn*M2 + n*M1 + m
MLineIndex(k_id, nn, n, m, nntot, num_bands) ==
    k_id * (num_bands * num_bands * nntot) + nn * (num_bands * num_bands)
    + n * num_bands + m

MIndices(shape) ==
    {<<k_id, nn, n, m>> : k_id \in 0 .. shape[1] - 1, nn \in 0 .. shape[2] - 1,
                          n \in 0 .. shape[3] - 1, m \in 0 .. shape[3] - 1}

\* lines 440-466
ReadMMatrix(file, shape) ==
    LET lines == MLinesKept(file, shape[3], shape[1] * shape[2], 2)
    IN  [ix \in MIndices(shape) |->
            LET xy == lines[MLineIndex(ix[1], ix[2], ix[3], ix[4],
                                       shape[2], shape[3]) + 1]
            IN  <<Parse18(xy[1]), Parse18(xy[2])>>]

ExportMmn ==
    /\ mmn_pc = "new"
    /\ mmn_file' = MmnFile(mmn_M, mmn_shape)
    /\ mmn_pc' = "exported"
    /\ UNCHANGED <<mmn_shape, mmn_M, mmn_read>>

ReadMMatBack ==
    /\ mmn_pc = "exported"
    /\ mmn_read' = ReadMMatrix(mmn_file, mmn_shape)
    /\ mmn_pc' = "read"
    /\ UNCHANGED <<mmn_shape, mmn_M, mmn_file>>

\* (num_kpts, nntot, num_bands)
MmnShapes == {<<1, 1, 2>>, <<2, 1, 1>>, <<1, 2, 1>>, <<2, 2, 1>>, <<1, 2, 2>>,
              <<2, 1, 2>>}

MmnInit ==
    /\ mmn_shape \in MmnShapes
    /\ mmn_M \in [MIndices(mmn_shape) -> AmnValues]
    /\ mmn_file = <<>>
    /\ mmn_read = <<>>
    /\ mmn_pc = "new"

MmnIdle ==
    /\ mmn_shape = <<0, 0, 0>>
    /\ mmn_M = <<>>
    /\ mmn_file = <<>>
    /\ mmn_read = <<>>
    /\ mmn_pc = "idle"

-----------------------------------------------------------------------------
(***************************************************************************)
(* w90.main: get_symmetry, to_convcell, to_primcell, write_cif             *)
(*                                                                         *)
(* spg_wrapper and cell_io are external: get_sym answers any pair          *)
(* (is_std, is_prim), the cell transformations and cell_io.write_cif       *)
(* return.                                                                 *)
(***************************************************************************)

\* the methods class main defines that write_cif could call on self
MainMethods == {"get_symmetry", "to_convcell", "to_primcell", "write_poscar",
                "write_cif", "write_xsf"}

\* one entry of m_log
MainCall(op, args, out, cif) == [op |-> op, args |-> args, out |-> out, cif |-> cif]

NoArgs == [cell |-> "None", symmetry |-> TRUE, type_set |-> FALSE]
NoCif == [cell |-> "none", spacegroup |-> "none"]

CanCall == Len(m_log) < MaxOps

\* lines 44-49, cell = None
GetSymmetry ==
    /\ CanCall
    /\ \E is_std \in BOOLEAN, is_prim \in BOOLEAN :
          m_cell_type' = [set |-> TRUE, is_std |-> is_std, is_prim |-> is_prim]
    /\ m_log' = Append(m_log, MainCall("get_symmetry", NoArgs, "returned", NoCif))
    /\ UNCHANGED m_cell

\* lines 53-58, cell = None: self.cell is replaced before self.cell_type[0]
\* is assigned
ToConvcell ==
    /\ CanCall
    /\ m_cell' = "std"
    /\ IF m_cell_type.set
       THEN /\ m_cell_type' = [m_cell_type EXCEPT !.is_std = TRUE]
            /\ m_log' = Append(m_log, MainCall("to_convcell", NoArgs, "returned", NoCif))
       ELSE /\ UNCHANGED m_cell_type
            /\ m_log' = Append(m_log, MainCall("to_convcell", NoArgs, "AttributeError", NoCif))

\* lines 62-67, cell = None
ToPrimcell ==
    /\ CanCall
    /\ m_cell' = "prim"
    /\ IF m_cell_type.set
       THEN /\ m_cell_type' = [m_cell_type EXCEPT !.is_prim = TRUE]
            /\ m_log' = Append(m_log, MainCall("to_primcell", NoArgs, "returned", NoCif))
       ELSE /\ UNCHANGED m_cell_type
            /\ m_log' = Append(m_log, MainCall("to_primcell", NoArgs, "AttributeError", NoCif))

\* line 80: the method write_cif calls on self for a standard cell
StdCellMethod == "to_stdcell"

\* lines 75-96: how write_cif ends, and what it hands to cell_io.write_cif
WriteCifResult(cell, symmetry) ==
    IF cell = "None"
    THEN IF ~m_cell_type.set
         THEN [out |-> "AttributeError", cif |-> NoCif]     \* line 78
         ELSE IF m_cell_type.is_std /\ symmetry
         THEN IF StdCellMethod \in MainMethods
              THEN [out |-> "written",
                    cif |-> [cell |-> "std of self.cell", spacegroup |-> "detected"]]
              ELSE [out |-> "AttributeError", cif |-> NoCif]   \* line 80
         ELSE IF m_cell_type.is_prim /\ symmetry
         THEN [out |-> "written",
               cif |-> [cell |-> "prim of self.cell", spacegroup |-> "detected"]]
         ELSE [out |-> "written",
               cif |-> [cell |-> "self.cell", spacegroup |-> "P1"]]
    ELSE [out |-> "written", cif |-> [cell |-> "given", spacegroup |-> "P1"]]

WriteCif ==
    /\ CanCall
    /\ \E cell \in {"None", "given"}, symmetry \in BOOLEAN :
          LET r == WriteCifResult(cell, symmetry)
          IN  m_log' = Append(m_log,
                  MainCall("write_cif",
                           [cell |-> cell, symmetry |-> symmetry,
                            type_set |-> m_cell_type.set],
                           r.out, r.cif))
    /\ UNCHANGED <<m_cell, m_cell_type>>

\* lines 30-41: __init__ does not create self.cell_type
MainInit ==
    /\ m_cell = "win"
    /\ m_cell_type = [set |-> FALSE, is_std |-> FALSE, is_prim |-> FALSE]
    /\ m_log = <<>>

MainIdle ==
    /\ m_cell = "idle"
    /\ m_cell_type = [set |-> FALSE, is_std |-> FALSE, is_prim |-> FALSE]
    /\ m_log = <<>>

-----------------------------------------------------------------------------
(***************************************************************************)
(* W90.plot_wf: the loop over wf_list                                      *)
(*                                                                         *)
(* One step per loop iteration.  get_wannier and the file writes are taken *)
(* to succeed.                                                             *)
(***************************************************************************)

\* list(range(n))
RangeList(n) == [i \in 1 .. n |-> i - 1]

\* an id accepted whenever it is a valid index of WF0[:, wf_id]
IdIsNumpyIndex(wf_id, n) == (0 - n <= wf_id) /\ (wf_id < n)

\* line 715: wf_id in list(range(self.num_wann_loc))
IdInRange(wf_id, n) == wf_id \in Elems(RangeList(n))

\* lines 704-711: the default wf_list, the grid and get_wannier
PlotWfCall ==
    /\ wf_pc = "new"
    /\ wf_list' = IF wf_arg.given THEN wf_arg.ids ELSE RangeList(wf_num_wann)
    /\ wf_pc' = "loop"
    /\ UNCHANGED <<wf_num_wann, wf_arg, wf_pos, wf_written>>

\* lines 714-743: one iteration, the assert and then the whole file
PlotWfIteration ==
    /\ wf_pc = "loop"
    /\ wf_pos < Len(wf_list)
    /\ wf_pos' = wf_pos + 1
    /\ IF IdInRange(wf_list[wf_pos + 1], wf_num_wann)
       THEN /\ wf_written' = Append(wf_written, wf_list[wf_pos + 1])
            /\ UNCHANGED wf_pc
       ELSE /\ wf_pc' = "AssertionError"
            /\ UNCHANGED wf_written
    /\ UNCHANGED <<wf_num_wann, wf_arg, wf_list>>

\* the loop is exhausted
PlotWfReturn ==
    /\ wf_pc = "loop"
    /\ wf_pos = Len(wf_list)
    /\ wf_pc' = "returned"
    /\ UNCHANGED <<wf_num_wann, wf_arg, wf_list, wf_pos, wf_written>>

WannCounts == {1, 2}
WfIds == -1 .. 2

RECURSIVE SeqsUpTo(_, _)
SeqsUpTo(S, n) ==
    IF n = 0 THEN {<<>>}
    ELSE SeqsUpTo(S, n - 1) \cup [1 .. n -> S]

PlotWfInit ==
    /\ wf_num_wann \in WannCounts
    /\ wf_arg \in {[given |-> FALSE, ids |-> <<>>]}
                  \cup {[given |-> TRUE, ids |-> ids] : ids \in SeqsUpTo(WfIds, MaxWfLen)}
    /\ wf_list = <<>>
    /\ wf_pos = 0
    /\ wf_written = <<>>
    /\ wf_pc = "new"

PlotWfIdle ==
    /\ wf_num_wann = 0
    /\ wf_arg = [given |-> FALSE, ids |-> <<>>]
    /\ wf_list = <<>>
    /\ wf_pos = 0
    /\ wf_written = <<>>
    /\ wf_pc = "idle"

-----------------------------------------------------------------------------
(***************************************************************************)
(* VASP.get_efermi on an object built from a list of vaspruns              *)
(***************************************************************************)

\* the loop of lines 77-85 from the i-th loaded vasprun on, acc being
\* self.efermi so far: a run with an efermi contributes its own; for one
\* without, self.useOUTCAR is read (the list branch of __init__ sets it only
\* when an OUTCAR was loaded) and then self.outcar[i]
RECURSIVE EfermiLoop(_, _)
EfermiLoop(i, acc) ==
    IF i > Len(self_vasprun) THEN [out |-> "returned", efermi |-> acc]
    ELSE IF ef_has[self_vasprun[i]]
    THEN EfermiLoop(i + 1, Append(acc, <<"vasprun", self_vasprun[i]>>))
    ELSE IF useOUTCAR = "unset"
    THEN [out |-> "AttributeError", efermi |-> acc]
    ELSE IF i > Len(self_outcar.items)
    THEN [out |-> "IndexError", efermi |-> acc]
    ELSE EfermiLoop(i + 1, Append(acc, <<"OUTCAR", self_outcar.items[i]>>))

GetEfermi ==
    /\ init_pc = "constructed"
    /\ ef_pc = "not called"
    /\ IF vaspruns_arg.kind = "list"
       THEN LET r == EfermiLoop(1, <<>>)
            IN  /\ self_efermi' = r.efermi
                /\ ef_pc' = r.out
       ELSE \* self.vasprun was never assigned
            /\ ef_pc' = "AttributeError"
            /\ UNCHANGED self_efermi
    /\ UNCHANGED <<initVars, ef_has>>

\* the constructor, in the specification that goes on to call get_efermi
ConstructFromList == VaspInitList /\ UNCHANGED efVars
ConstructFromOther == VaspInitOther /\ UNCHANGED efVars

EfInit ==
    /\ ef_has \in [1 .. MaxFiles -> BOOLEAN]
    /\ self_efermi = <<>>
    /\ ef_pc = "not called"

EfIdle ==
    /\ ef_has = <<>>
    /\ self_efermi = <<>>
    /\ ef_pc = "idle"

-----------------------------------------------------------------------------
(***************************************************************************)
(* VASP.plot_pband: the band range (lines 590-604)                         *)
(***************************************************************************)

\* band_idx == None: ten bands around the valence-band maximum estimated from
\* NELECT, clamped to 0 .. nbands - 1
DefaultRange(nelec, lsorbit, nb) ==
    LET idx_vbm    == IF lsorbit = FALSE THEN nelec \div 2 ELSE nelec
        first_band == idx_vbm - 5
        last_band  == idx_vbm + 4
    IN  << IF first_band < 0 THEN 0 ELSE first_band,
           IF last_band > nb - 1 THEN nb - 1 ELSE last_band >>

\* a band_idx the caller gave, after lines 601-604
ShiftedRange(v, nb) ==
    LET lo == IF v[1] < 1 THEN 1 ELSE v[1]
        hi == IF v[2] > nb THEN nb ELSE v[2]
    IN  <<lo - 1, hi - 1>>

\* lines 603-604 assign into the list the caller passed
CallerListAfter(old, new) == new

PlotPband ==
    /\ pp_calls < MaxPlots
    /\ pp_calls' = pp_calls + 1
    /\ IF ~pp_list.given
       THEN /\ pp_range' = DefaultRange(pp_nelec, pp_lsorbit, pp_nbands)
            /\ pp_pc' = "returned"
            /\ UNCHANGED pp_list
       ELSE IF ~(pp_list.v[1] <= pp_list.v[2])
       THEN /\ pp_pc' = "AssertionError"
            /\ UNCHANGED <<pp_list, pp_range>>
       ELSE LET new == ShiftedRange(pp_list.v, pp_nbands)
            IN  /\ pp_range' = new
                /\ pp_list' = [given |-> TRUE, v |-> CallerListAfter(pp_list.v, new)]
                /\ pp_pc' = "returned"
    /\ UNCHANGED <<pp_nelec, pp_lsorbit, pp_nbands, pp_given>>

\* NBANDS holds at least the occupied bands: NELECT/2 of them without
\* spin-orbit coupling, NELECT with it
PlotPbandInit ==
    /\ pp_nbands \in 1 .. MaxBands
    /\ pp_lsorbit \in BOOLEAN
    /\ pp_nelec \in 0 .. 2 * MaxBands
    /\ (IF pp_lsorbit THEN pp_nelec ELSE pp_nelec \div 2) <= pp_nbands
    /\ pp_list \in {[given |-> FALSE, v |-> <<0, 0>>]}
                    \cup {[given |-> TRUE, v |-> <<a, b>>] :
                             a, b \in -1 .. MaxBands + 2}
    /\ pp_given = pp_list
    /\ pp_range = <<0, 0>>
    /\ pp_pc = "not called"
    /\ pp_calls = 0

PlotPbandIdle ==
    /\ pp_nbands = 0
    /\ pp_lsorbit = FALSE
    /\ pp_nelec = 0
    /\ pp_list = [given |-> FALSE, v |-> <<0, 0>>]
    /\ pp_given = [given |-> FALSE, v |-> <<0, 0>>]
    /\ pp_range = <<0, 0>>
    /\ pp_pc = "idle"
    /\ pp_calls = 0

-----------------------------------------------------------------------------
(***************************************************************************)
(* pywannier90_vasp.periodic_grid and cartesian_prod                       *)
(*                                                                         *)
(* coords is the image of the integer offsets qv under the linear map      *)
(* a_frac; the model keeps qv.  A weight is held as the quotient it is     *)
(* computed from.                                                          *)
(***************************************************************************)

\* np.arange(start, stop)
Arange(start, stop) ==
    IF stop <= start THEN <<>> ELSE [i \in 1 .. stop - start |-> start + i - 1]

\* a slip of line 98: the range taken symmetric about 0
AxisStopSymmetric(n, sc) == n * (sc \div 2)

\* line 98: the two ends of the arange of one axis
AxisStart(n, sc) == 0 - n * (sc \div 2)
AxisStop(n, sc) == n * ((sc + 1) \div 2)

\* the position in a (d1, d2, d3) block of its j-th element (from 0), counted
\* in C order (last index fastest) or in Fortran order (first index fastest)
UnravelC(j, d) == <<j \div (d[2] * d[3]), (j \div d[3]) % d[2], j % d[3]>>
UnravelF(j, d) == <<j % d[1], (j \div d[1]) % d[2], j \div (d[1] * d[2])>>

\* lines 71-90 for three arrays: tout[i] holds arrays[i] along axis i, and
\* reshape((nd, -1), order).T lists the points in the given order
cartesian_prod(arrays, order) ==
    LET d == <<Len(arrays[1]), Len(arrays[2]), Len(arrays[3])>>
    IN  [j \in 1 .. d[1] * d[2] * d[3] |->
            LET ix == IF order = "C" THEN UnravelC(j - 1, d) ELSE UnravelF(j - 1, d)
            IN  <<arrays[1][ix[1] + 1], arrays[2][ix[2] + 1], arrays[3][ix[3] + 1]>>]

\* lines 104-108: np.empty(ngrids*ncells) filled with vol / ngrids / ncells
Weights(grid, supercell) ==
    LET ngrids == grid[1] * grid[2] * grid[3]
        ncells == supercell[1] * supercell[2] * supercell[3]
    IN  [i \in 1 .. ngrids * ncells |-> [num |-> "vol", den |-> ngrids * ncells]]

PeriodicGrid ==
    /\ pg_pc = "not called"
    /\ pg_qv' = cartesian_prod(
                    [i \in 1 .. 3 |-> Arange(AxisStart(pg_grid[i], pg_supercell[i]),
                                             AxisStop(pg_grid[i], pg_supercell[i]))],
                    pg_order)
    /\ pg_weights' = Weights(pg_grid, pg_supercell)
    /\ pg_pc' = "returned"
    /\ UNCHANGED <<pg_grid, pg_supercell, pg_order>>

PeriodicGridInit ==
    /\ pg_grid \in [1 .. 3 -> 1 .. MaxGrid]
    /\ pg_supercell \in [1 .. 3 -> 1 .. MaxSuper]
    /\ pg_order \in {"C", "F"}
    /\ pg_qv = <<>>
    /\ pg_weights = <<>>
    /\ pg_pc = "not called"

PeriodicGridIdle ==
    /\ pg_grid = <<0, 0, 0>>
    /\ pg_supercell = <<0, 0, 0>>
    /\ pg_order = "C"
    /\ pg_qv = <<>>
    /\ pg_weights = <<>>
    /\ pg_pc = "idle"

-----------------------------------------------------------------------------
(***************************************************************************)
(* W90.__init__ and W90.setup: the attributes of the object                *)
(***************************************************************************)

\* the attribute names of a block, all given one value
AllSet(names, v) == [a \in names |-> v]

\* lines 305-323: what is read from POSCAR and WAVECAR and the arguments
InfoAttrs == {"pos", "wave", "num_wann", "keywords", "num_bands_tot", "num_kpts_loc",
              "mp_grid_loc"}
CellAttrs == {"real_lattice_loc", "recip_lattice_loc", "kpt_latt_loc", "kpts_abs",
              "abs_kpts", "num_atoms_loc", "atom_symbols_loc", "atom_atomic_loc",
              "atoms_cart_loc"}

\* lines 331-344: the names assigned None under "Wannier90_setup outputs";
\* line 337 reads "proj_m = None", a local name of __init__
SetupOutputAttrs == {"num_bands_loc", "num_wann_loc", "nntot_loc", "nn_list",
                     "proj_site", "proj_l", "proj_radial", "proj_z", "proj_x",
                     "proj_zona", "exclude_bands", "proj_s", "proj_s_qaxis"}
\* lines 347-350 and 353-358
RunInputAttrs == {"band_included_list", "A_matrix_loc", "M_matrix_loc",
                  "eigenvalues_loc"}
RunOutputAttrs == {"U_matrix", "U_matrix_opt", "lwindow", "wann_centres",
                   "wann_spreads", "spread"}

\* line 314: assert self.num_kpts_loc == np.asarray(self.mp_grid_loc).prod()
KptsMatch(a) == a.num_kpts = a.mp_grid[1] * a.mp_grid[2] * a.mp_grid[3]

\* lines 305-314, up to the assert
AttrsAtAssert == AllSet(InfoAttrs, "value")

\* lines 315-363
AttrsBeforeSpin(a) ==
    AttrsAtAssert
    @@ AllSet(CellAttrs, "value")
    @@ [x \in {"gamma_only"} |-> IF a.gamma THEN "1" ELSE "0"]
    @@ [x \in {"spinors"} |-> IF a.spinors THEN "1" ELSE "0"]
    @@ AllSet(SetupOutputAttrs \cup RunInputAttrs \cup RunOutputAttrs, "None")
    @@ AllSet({"use_bloch_phases", "check_complex"}, "False")
    @@ [x \in {"spin_up"} |-> IF a.spin_up THEN "True" ELSE "False"]

\* lines 327-328 and 365-370: self.spin, and mo_energy_kpts when it is reached
SpinAttrs(a, done) ==
    [x \in {"spin"} |-> IF a.spin_up THEN "0" ELSE "1"]
    @@ (IF done THEN AllSet({"mo_energy_kpts"}, "value") ELSE <<>>)

W90Construct ==
    /\ wa_pc = "new"
    /\ IF ~KptsMatch(wa_args)
       THEN /\ wa_attrs' = AttrsAtAssert
            /\ wa_pc' = "AssertionError"
       ELSE IF ~wa_args.spin_up /\ wa_args.nspin # 2
       THEN /\ wa_attrs' = SpinAttrs(wa_args, FALSE) @@ AttrsBeforeSpin(wa_args)
            /\ wa_pc' = "AssertionError"
       ELSE /\ wa_attrs' = SpinAttrs(wa_args, TRUE) @@ AttrsBeforeSpin(wa_args)
            /\ wa_pc' = "constructed"
    /\ UNCHANGED wa_args

\* lines 555-568: the attributes setup assigns from what libwannier90.setup
\* returned
SetupAssigns == {"num_bands_loc", "num_wann_loc", "nntot_loc", "nn_list",
                 "proj_site", "proj_l", "proj_m", "proj_radial", "proj_z", "proj_x",
                 "proj_zona", "exclude_bands", "band_included_list", "proj_s",
                 "proj_s_qaxis"}

\* lines 539-568; libwannier90.setup returns or raises
W90SetupAttrs ==
    /\ wa_pc = "constructed"
    /\ \E ok \in BOOLEAN :
          IF ok THEN /\ wa_attrs' = AllSet(SetupAssigns, "value") @@ wa_attrs
                     /\ wa_pc' = "setup"
          ELSE /\ wa_pc' = "RuntimeError"
               /\ UNCHANGED wa_attrs
    /\ UNCHANGED wa_args

W90AttrsInit ==
    /\ wa_args \in [mp_grid : [1 .. 3 -> 1 .. MaxMp], num_kpts : 1 .. MaxMp * MaxMp * MaxMp,
                     nspin : {1, 2}, gamma : BOOLEAN, spinors : BOOLEAN,
                     spin_up : BOOLEAN]
    /\ wa_attrs = <<>>
    /\ wa_pc = "new"

W90AttrsIdle ==
    /\ wa_args = <<>>
    /\ wa_attrs = <<>>
    /\ wa_pc = "idle"

-----------------------------------------------------------------------------
(***************************************************************************)
(* The specifications.                                                     *)
(***************************************************************************)
GapOthers == <<initVars, pbandVars, thetaVars, grVars, w90Vars, amnVars,
               mmnVars, mainVars, wfVars, efVars, ppVars, pgVars, waVars>>

GapNext == GetBandgap /\ UNCHANGED GapOthers

GapStart ==
    /\ GapInit
    /\ InitIdle
    /\ PbandIdle
    /\ ThetaIdle
    /\ GrIdle
    /\ W90Idle
    /\ AmnIdle
    /\ MmnIdle
    /\ MainIdle
    /\ PlotWfIdle
    /\ EfIdle
    /\ PlotPbandIdle
    /\ PeriodicGridIdle
    /\ W90AttrsIdle

SpecGap == GapStart /\ [][GapNext]_vars

GapWideOthers == <<initVars, pbandVars, thetaVars, grVars, w90Vars,
                   amnVars, mmnVars, mainVars, wfVars, efVars, ppVars,
                   pgVars, waVars>>

GapWideNext == GetBandgap /\ UNCHANGED GapWideOthers

GapWideStart ==
    /\ GapWideInit
    /\ InitIdle
    /\ PbandIdle
    /\ ThetaIdle
    /\ GrIdle
    /\ W90Idle
    /\ AmnIdle
    /\ MmnIdle
    /\ MainIdle
    /\ PlotWfIdle
    /\ EfIdle
    /\ PlotPbandIdle
    /\ PeriodicGridIdle
    /\ W90AttrsIdle

SpecGapWide == GapWideStart /\ [][GapWideNext]_vars

InitOthers == <<gapVars, pbandVars, thetaVars, grVars, w90Vars, amnVars,
                mmnVars, mainVars, wfVars, efVars, ppVars, pgVars, waVars>>

InitNext ==
    \/ VaspInitList /\ UNCHANGED InitOthers
    \/ VaspInitOther /\ UNCHANGED InitOthers

InitStart ==
    /\ InitInit
    /\ GapIdle
    /\ PbandIdle
    /\ ThetaIdle
    /\ GrIdle
    /\ W90Idle
    /\ AmnIdle
    /\ MmnIdle
    /\ MainIdle
    /\ PlotWfIdle
    /\ EfIdle
    /\ PlotPbandIdle
    /\ PeriodicGridIdle
    /\ W90AttrsIdle

SpecInit == InitStart /\ [][InitNext]_vars

PbandOthers == <<gapVars, initVars, thetaVars, grVars, w90Vars, amnVars,
                 mmnVars, mainVars, wfVars, efVars, ppVars, pgVars, waVars>>

PbandNext == GeneratePband /\ UNCHANGED PbandOthers

PbandStart ==
    /\ PbandInit
    /\ GapIdle
    /\ InitIdle
    /\ ThetaIdle
    /\ GrIdle
    /\ W90Idle
    /\ AmnIdle
    /\ MmnIdle
    /\ MainIdle
    /\ PlotWfIdle
    /\ EfIdle
    /\ PlotPbandIdle
    /\ PeriodicGridIdle
    /\ W90AttrsIdle

SpecPband == PbandStart /\ [][PbandNext]_vars

ThetaOthers == <<gapVars, initVars, pbandVars, grVars, w90Vars, amnVars,
                 mmnVars, mainVars, wfVars, efVars, ppVars, pgVars, waVars>>

ThetaNext == ThetaLmrCall /\ UNCHANGED ThetaOthers

ThetaStart ==
    /\ ThetaInit
    /\ GapIdle
    /\ InitIdle
    /\ PbandIdle
    /\ GrIdle
    /\ W90Idle
    /\ AmnIdle
    /\ MmnIdle
    /\ MainIdle
    /\ PlotWfIdle
    /\ EfIdle
    /\ PlotPbandIdle
    /\ PeriodicGridIdle
    /\ W90AttrsIdle

SpecTheta == ThetaStart /\ [][ThetaNext]_vars

GrOthers == <<gapVars, initVars, pbandVars, thetaVars, w90Vars, amnVars,
              mmnVars, mainVars, wfVars, efVars, ppVars, pgVars, waVars>>

GrNext == GR /\ UNCHANGED GrOthers

GrStart ==
    /\ GrInit
    /\ GapIdle
    /\ InitIdle
    /\ PbandIdle
    /\ ThetaIdle
    /\ W90Idle
    /\ AmnIdle
    /\ MmnIdle
    /\ MainIdle
    /\ PlotWfIdle
    /\ EfIdle
    /\ PlotPbandIdle
    /\ PeriodicGridIdle
    /\ W90AttrsIdle

SpecGr == GrStart /\ [][GrNext]_vars

W90Others == <<gapVars, initVars, pbandVars, thetaVars, grVars, amnVars,
               mmnVars, mainVars, wfVars, efVars, ppVars, pgVars, waVars>>

W90Next ==
    \/ KernelCall /\ UNCHANGED W90Others
    \/ ExportAMECall /\ UNCHANGED W90Others
    \/ DirectCall /\ UNCHANGED W90Others
    \/ MakeWin /\ UNCHANGED W90Others
    \/ Setup /\ UNCHANGED W90Others
    \/ ReadMMat /\ UNCHANGED W90Others
    \/ ReadAMat /\ UNCHANGED W90Others
    \/ GetMMat /\ UNCHANGED W90Others
    \/ GetAMat /\ UNCHANGED W90Others
    \/ GetEpsilonMat /\ UNCHANGED W90Others
    \/ Run /\ UNCHANGED W90Others
    \/ ExportUnk /\ UNCHANGED W90Others
    \/ WriteFiles /\ UNCHANGED W90Others

W90Start ==
    /\ W90Init
    /\ GapIdle
    /\ InitIdle
    /\ PbandIdle
    /\ ThetaIdle
    /\ GrIdle
    /\ AmnIdle
    /\ MmnIdle
    /\ MainIdle
    /\ PlotWfIdle
    /\ EfIdle
    /\ PlotPbandIdle
    /\ PeriodicGridIdle
    /\ W90AttrsIdle

SpecW90 == W90Start /\ [][W90Next]_vars

AmnOthers == <<gapVars, initVars, pbandVars, thetaVars, grVars, w90Vars,
               mmnVars, mainVars, wfVars, efVars, ppVars, pgVars, waVars>>

AmnNext ==
    \/ ExportAmn /\ UNCHANGED AmnOthers
    \/ ReadAMatBack /\ UNCHANGED AmnOthers

AmnStart ==
    /\ AmnInit
    /\ GapIdle
    /\ InitIdle
    /\ PbandIdle
    /\ ThetaIdle
    /\ GrIdle
    /\ W90Idle
    /\ MmnIdle
    /\ MainIdle
    /\ PlotWfIdle
    /\ EfIdle
    /\ PlotPbandIdle
    /\ PeriodicGridIdle
    /\ W90AttrsIdle

SpecAmn == AmnStart /\ [][AmnNext]_vars

MmnOthers == <<gapVars, initVars, pbandVars, thetaVars, grVars, w90Vars,
               amnVars, mainVars, wfVars, efVars, ppVars, pgVars, waVars>>

MmnNext ==
    \/ ExportMmn /\ UNCHANGED MmnOthers
    \/ ReadMMatBack /\ UNCHANGED MmnOthers

MmnStart ==
    /\ MmnInit
    /\ GapIdle
    /\ InitIdle
    /\ PbandIdle
    /\ ThetaIdle
    /\ GrIdle
    /\ W90Idle
    /\ AmnIdle
    /\ MainIdle
    /\ PlotWfIdle
    /\ EfIdle
    /\ PlotPbandIdle
    /\ PeriodicGridIdle
    /\ W90AttrsIdle

SpecMmn == MmnStart /\ [][MmnNext]_vars

MainOthers == <<gapVars, initVars, pbandVars, thetaVars, grVars, w90Vars,
                amnVars, mmnVars, wfVars, efVars, ppVars, pgVars, waVars>>

MainNext ==
    \/ GetSymmetry /\ UNCHANGED MainOthers
    \/ ToConvcell /\ UNCHANGED MainOthers
    \/ ToPrimcell /\ UNCHANGED MainOthers
    \/ WriteCif /\ UNCHANGED MainOthers

MainStart ==
    /\ MainInit
    /\ GapIdle
    /\ InitIdle
    /\ PbandIdle
    /\ ThetaIdle
    /\ GrIdle
    /\ W90Idle
    /\ AmnIdle
    /\ MmnIdle
    /\ PlotWfIdle
    /\ EfIdle
    /\ PlotPbandIdle
    /\ PeriodicGridIdle
    /\ W90AttrsIdle

SpecMain == MainStart /\ [][MainNext]_vars

PlotWfOthers == <<gapVars, initVars, pbandVars, thetaVars, grVars, w90Vars,
                  amnVars, mmnVars, mainVars, efVars, ppVars, pgVars,
                  waVars>>

PlotWfNext ==
    \/ PlotWfCall /\ UNCHANGED PlotWfOthers
    \/ PlotWfIteration /\ UNCHANGED PlotWfOthers
    \/ PlotWfReturn /\ UNCHANGED PlotWfOthers

PlotWfStart ==
    /\ PlotWfInit
    /\ GapIdle
    /\ InitIdle
    /\ PbandIdle
    /\ ThetaIdle
    /\ GrIdle
    /\ W90Idle
    /\ AmnIdle
    /\ MmnIdle
    /\ MainIdle
    /\ EfIdle
    /\ PlotPbandIdle
    /\ PeriodicGridIdle
    /\ W90AttrsIdle

SpecPlotWf == PlotWfStart /\ [][PlotWfNext]_vars

EfermiOthers == <<gapVars, pbandVars, thetaVars, grVars, w90Vars, amnVars,
                  mmnVars, mainVars, wfVars, ppVars, pgVars, waVars>>

EfermiNext ==
    \/ ConstructFromList /\ UNCHANGED EfermiOthers
    \/ ConstructFromOther /\ UNCHANGED EfermiOthers
    \/ GetEfermi /\ UNCHANGED EfermiOthers

EfermiStart ==
    /\ InitInit
    /\ EfInit
    /\ GapIdle
    /\ PbandIdle
    /\ ThetaIdle
    /\ GrIdle
    /\ W90Idle
    /\ AmnIdle
    /\ MmnIdle
    /\ MainIdle
    /\ PlotWfIdle
    /\ PlotPbandIdle
    /\ PeriodicGridIdle
    /\ W90AttrsIdle

SpecEfermi == EfermiStart /\ [][EfermiNext]_vars

PlotPbandOthers == <<gapVars, initVars, pbandVars, thetaVars, grVars,
                     w90Vars, amnVars, mmnVars, mainVars, wfVars, efVars,
                     pgVars, waVars>>

PlotPbandNext == PlotPband /\ UNCHANGED PlotPbandOthers

PlotPbandStart ==
    /\ PlotPbandInit
    /\ GapIdle
    /\ InitIdle
    /\ PbandIdle
    /\ ThetaIdle
    /\ GrIdle
    /\ W90Idle
    /\ AmnIdle
    /\ MmnIdle
    /\ MainIdle
    /\ PlotWfIdle
    /\ EfIdle
    /\ PeriodicGridIdle
    /\ W90AttrsIdle

SpecPlotPband == PlotPbandStart /\ [][PlotPbandNext]_vars

GridOthers == <<gapVars, initVars, pbandVars, thetaVars, grVars, w90Vars,
                amnVars, mmnVars, mainVars, wfVars, efVars, ppVars, waVars>>

GridNext == PeriodicGrid /\ UNCHANGED GridOthers

GridStart ==
    /\ PeriodicGridInit
    /\ GapIdle
    /\ InitIdle
    /\ PbandIdle
    /\ ThetaIdle
    /\ GrIdle
    /\ W90Idle
    /\ AmnIdle
    /\ MmnIdle
    /\ MainIdle
    /\ PlotWfIdle
    /\ EfIdle
    /\ PlotPbandIdle
    /\ W90AttrsIdle

SpecGrid == GridStart /\ [][GridNext]_vars

W90AttrsOthers == <<gapVars, initVars, pbandVars, thetaVars, grVars,
                    w90Vars, amnVars, mmnVars, mainVars, wfVars, efVars,
                    ppVars, pgVars>>

W90AttrsNext ==
    \/ W90Construct /\ UNCHANGED W90AttrsOthers
    \/ W90SetupAttrs /\ UNCHANGED W90AttrsOthers

W90AttrsStart ==
    /\ W90AttrsInit
    /\ GapIdle
    /\ InitIdle
    /\ PbandIdle
    /\ ThetaIdle
    /\ GrIdle
    /\ W90Idle
    /\ AmnIdle
    /\ MmnIdle
    /\ MainIdle
    /\ PlotWfIdle
    /\ EfIdle
    /\ PlotPbandIdle
    /\ PeriodicGridIdle

SpecW90Attrs == W90AttrsStart /\ [][W90AttrsNext]_vars

-----------------------------------------------------------------------------
(***************************************************************************)
(* Properties of get_bandgap, stated on the data of the runs.              *)
(***************************************************************************)
SetMax(S) == CHOOSE x \in S : \A y \in S : y <= x
SetMin(S) == CHOOSE x \in S : \A y \in S : y >= x

\* the bands of k-point k (of self.kpts) in spin channel s, from the run
RowAt(s, k) == runs[kpts[k][1]].band[s][kpts[k][2]]

\* the bands of that k-point flagged occupied: occupation > 0.5 for one
\* vasprun, energy < efermi[i] for run i of a list
OccupiedAt(s, k) ==
    IF mode = "one"
    THEN {b \in 1 .. nbands : runs[1].occ[s][kpts[k][2]][b] > 5}
    ELSE {b \in 1 .. nbands : RowAt(s, k)[b] < efermi[kpts[k][1]]}

NOcc(s, k) == Cardinality(OccupiedAt(s, k))

\* the band at Python index idx of that k-point (index -1 is the last band)
BandAtIdx(s, k, idx) == RowAt(s, k)[IF idx < 0 THEN nbands + idx + 1 ELSE idx + 1]

ValenceEdge(s, k) == BandAtIdx(s, k, NOcc(s, k) - 1)
ConductionEdge(s, k) == BandAtIdx(s, k, NOcc(s, k))

VBM(s) == SetMax({ValenceEdge(s, k) : k \in DOMAIN kpts})
CBM(s) == SetMin({ConductionEdge(s, k) : k \in DOMAIN kpts})

GapReturned == calls > 0 /\ gap_err = "none"

\* C1: a get_bandgap call that returns has, for every spin channel, taken the
\* band at index n_occ-1 of each k-point as the valence edge and the band at
\* index n_occ as the conduction edge, reported VBM = the maximum valence edge
\* and CBM = the minimum conduction edge over the k-points, and appended
\* CBM - VBM to self.bandgap.
C1_BandgapIsCbmMinusVbm ==
    GapReturned =>
        /\ Len(bandgap) = ispin
        /\ \A s \in 1 .. ispin :
              /\ report[s].vbm = VBM(s)
              /\ report[s].cbm = CBM(s)
              /\ bandgap[s] = CBM(s) - VBM(s)

\* a list of vaspruns merged into two k-points, one band below the Fermi
\* level at each, and a gap of 1 appended
C1_Witness ==
    /\ GapReturned
    /\ mode = "list"
    /\ Len(kpts) = 2
    /\ \A k \in DOMAIN kpts : NOcc(1, k) = 1
    /\ bandgap = <<1>>

\* the data of a well-formed calculation: at every k-point the bands are in
\* ascending order, the occupied bands are the lowest ones, and there is an
\* occupied and an empty band
EdgesExist ==
    \A s \in 1 .. ispin : \A k \in DOMAIN kpts :
        /\ 1 <= NOcc(s, k) /\ NOcc(s, k) <= nbands - 1
        /\ OccupiedAt(s, k) = 1 .. NOcc(s, k)
        /\ \A b \in 1 .. nbands - 1 : RowAt(s, k)[b] <= RowAt(s, k)[b + 1]

\* C2: the gap of a spin channel is reported direct if and only if some
\* k-point attains both the valence-band maximum and the conduction-band
\* minimum (checked on well-formed data, where both edges exist).
C2_DirectIffSameKpoint ==
    (GapReturned /\ EdgesExist) =>
        \A s \in 1 .. ispin :
            report[s].direct <=>
                \E k \in DOMAIN kpts : /\ ValenceEdge(s, k) = VBM(s)
                                       /\ ConductionEdge(s, k) = CBM(s)

\* C17: after a get_bandgap call, at every k-point of every spin channel the
\* band-edge indices satisfy 0 <= homo_idx < lumo_idx <= nbands - 1, and the
\* call did not fail on an index.
C17_BandEdgeIndicesValid ==
    calls >= 1 =>
        /\ gap_err # "IndexError"
        /\ \A s \in DOMAIN co_occ_ : \A k \in DOMAIN co_occ_[s] :
              /\ 0 <= HomoIdx(co_occ_[s][k])
              /\ HomoIdx(co_occ_[s][k]) < LumoIdx(co_occ_[s][k])
              /\ LumoIdx(co_occ_[s][k]) <= nbands - 1

\* the same-k-point gap at k-point k
GapAt(s, k) == ConductionEdge(s, k) - ValenceEdge(s, k)

\* one k-point attains the valence-band maximum, one the conduction-band
\* minimum
EdgesUnique(s) ==
    /\ Cardinality({k \in DOMAIN kpts : ValenceEdge(s, k) = VBM(s)}) = 1
    /\ Cardinality({k \in DOMAIN kpts : ConductionEdge(s, k) = CBM(s)}) = 1

\* C18: when the gap of a spin channel is found indirect, the value printed
\* as 'Direct bandgap' is the minimum over all k-points of the same-k-point
\* gap (checked on well-formed data whose band edges are each attained at one
\* k-point).
C18_DirectGapIsMinimumOverKpoints ==
    (GapReturned /\ EdgesExist) =>
        \A s \in 1 .. ispin :
            (~report[s].direct /\ EdgesUnique(s)) =>
                report[s].direct_gap = SetMin({GapAt(s, k) : k \in DOMAIN kpts})

\* the k-points of weight zero of a run, in their original order
RECURSIVE ZeroWeightRows(_, _)
ZeroWeightRows(w, j) ==
    IF j > Len(w) THEN <<>>
    ELSE (IF w[j] = 0 THEN <<j>> ELSE <<>>) \o ZeroWeightRows(w, j + 1)

\* the zero-weight k-points of every run, in run order, each named <<run, row>>
RECURSIVE ZeroWeightKpts(_, _)
ZeroWeightKpts(rs, i) ==
    IF i > Len(rs) THEN <<>>
    ELSE LET z == ZeroWeightRows(rs[i].weights, 1)
         IN  [n \in 1 .. Len(z) |-> <<i, z[n]>>] \o ZeroWeightKpts(rs, i + 1)

\* C21: after get_bandgap merged the band data of a list of vaspruns, the
\* merged k-point list is exactly the zero-weight k-points of each run, in run
\* order and in their order within the run, and the merged band and occupation
\* rows are those of the same k-points, whatever the arrangement of zero and
\* non-zero weights in a run.
C21_MergedKptsAreZeroWeight ==
    (calls >= 1 /\ mode = "list") =>
        /\ kpts = ZeroWeightKpts(runs, 1)
        /\ \A s \in 1 .. ispin : \A k \in DOMAIN kpts :
              /\ band[s][k] = runs[kpts[k][1]].band[s][kpts[k][2]]
              /\ co_occ[s][k] = runs[kpts[k][1]].occ[s][kpts[k][2]]

\* C12: a get_bandgap call that follows a call that returned, with the same
\* efermi on the same data, leaves self.bandgap as it was, one entry per spin
\* channel.
C12_BandgapRecomputed ==
    [][(calls >= 1 /\ gap_err = "none")
          => (gap_err' = "none" /\ bandgap' = bandgap /\ Len(bandgap') = ispin)]_vars

\* two or more calls made on a spin-polarised run that has a gap
C12_Witness ==
    /\ calls = 2
    /\ gap_err = "none"
    /\ ispin = 2
    /\ Len(bandgap) = 2
    /\ bandgap[1] = 1

-----------------------------------------------------------------------------
(***************************************************************************)
(* Properties of VASP.__init__                                             *)
(***************************************************************************)

\* C3: constructing VASP with a list of vasprun names of which some file is
\* missing (and no outcars) prints 'Cannot find' and finishes construction
\* without raising, wherever the missing file stands in the list.
C3_MissingFileNoRaise ==
    ( /\ init_pc # "new"
      /\ vaspruns_arg.kind = "list"
      /\ ~outcars_arg.given
      /\ \E i \in DOMAIN vaspruns_arg.exists : ~vaspruns_arg.exists[i] )
    => ( /\ \E n \in DOMAIN init_out : init_out[n][1] = "Cannot find"
         /\ init_pc = "constructed" )

\* C19: after construction from a list of vaspruns and a list of outcars of
\* the same length, self.outcar has one entry for every entry of self.vasprun
\* and self.outcar[i] is the OUTCAR given at the list position of
\* self.vasprun[i], also when some of the named files are missing.
C19_OutcarsAlignedWithVaspruns ==
    ( /\ init_pc = "constructed"
      /\ vaspruns_arg.kind = "list"
      /\ outcars_arg.given )
    => ( /\ self_outcar.set
         /\ Len(self_outcar.items) = Len(self_vasprun)
         /\ \A i \in DOMAIN self_vasprun : self_outcar.items[i] = self_vasprun[i] )

-----------------------------------------------------------------------------
(***************************************************************************)
(* Properties of VASP._generate_pband                                      *)
(***************************************************************************)

\* C4: for every style in {1, 2, 3} and every lm that is not a recognised
\* orbital label, shortcut or 'atom:orbitals' string (nor a list of them),
\* _generate_pband ends by raising the generic Exception: it returns no pband
\* and fails with no other error type.
C4_MalformedLmRaisesException ==
    ( /\ pb_result.out # "not called"
      /\ pb_style \in {1, 2, 3}
      /\ pb_lm \in LmMalformed )
    => pb_result.out = "Exception"

PbandCalled == pb_result.out \notin {"not called", "idle"}

\* the letters a shortcut string is spelled with
LettersOf(t) ==
    CASE t = "p"   -> <<"p">>
      [] t = "d"   -> <<"d">>
      [] t = "sp"  -> <<"s", "p">>
      [] t = "ps"  -> <<"p", "s">>
      [] t = "pd"  -> <<"p", "d">>
      [] t = "dp"  -> <<"d", "p">>
      [] t = "sd"  -> <<"s", "d">>
      [] t = "ds"  -> <<"d", "s">>
      [] t = "spd" -> <<"s", "p", "d">>
      [] t = "sdp" -> <<"s", "d", "p">>
      [] t = "psd" -> <<"p", "s", "d">>
      [] t = "pds" -> <<"p", "d", "s">>
      [] t = "dsp" -> <<"d", "s", "p">>
      [] t = "dps" -> <<"d", "p", "s">>

\* the orbitals a letter stands for
LetterGroup(c) ==
    CASE c = "s" -> <<"s">>
      [] c = "p" -> <<"px", "py", "pz">>
      [] c = "d" -> <<"dxy", "dyz", "dz2", "dxz", "dx2-y2">>

C13_StylesZeroOneTwo ==
    PbandCalled =>
        /\ (pb_style = 0 /\ pb_lm \in LmLabels \cup LmShortcuts)
              => pb_result.out = "pband"
        /\ pb_style \notin {0, 1, 2} => pb_result.out = "Exception"

-----------------------------------------------------------------------------
(***************************************************************************)
(* Properties of theta_lmr and g_r                                         *)
(***************************************************************************)
\* the (l, mr) pairs of Table 3.1 and 3.2
OrbitalTable ==
    {<<0, 1>>} \cup {<<1, m>> : m \in 1 .. 3} \cup {<<2, m>> : m \in 1 .. 5}
    \cup {<<3, m>> : m \in 1 .. 7} \cup {<<-1, m>> : m \in 1 .. 2}
    \cup {<<-2, m>> : m \in 1 .. 3} \cup {<<-3, m>> : m \in 1 .. 4}
    \cup {<<-4, m>> : m \in 1 .. 5} \cup {<<-5, m>> : m \in 1 .. 6}

ThetaCalled == th_result.out \notin {"not called", "idle"}

\* C5: for every (l, mr) pair of the orbital table, theta_lmr takes a branch
\* of the table and returns a value without raising.
C5_ThetaLmrTotalOnTable ==
    (ThetaCalled /\ <<th_l, th_mr>> \in OrbitalTable)
        => (th_result.out = "returned" /\ th_result.branch # "none")

\* C27: for every (l, mr) pair that is not an entry of the orbital table,
\* theta_lmr ends in an AssertionError and returns no value.
C27_OffTableRejectedByAssert ==
    (ThetaCalled /\ <<th_l, th_mr>> \notin OrbitalTable)
        => (th_result.out = "AssertionError" /\ th_result.branch = "none")

GrCalled == g_result \notin {"not called", "idle"}

\* C6: when g_r reaches the division cost = z / r_norm, no grid point has
\* radius zero, whether or not the near-zero handling moved the site.
C6_NoZeroRadiusAfterNudge ==
    GrCalled => \A i \in DOMAIN g_r_vec :
                    Norm2(g_r_vec[i]) # 0 /\ g_cost[i] = "number"
-----------------------------------------------------------------------------
(***************************************************************************)
(* Properties of W90.kernel and W90.export_AME                             *)
(***************************************************************************)
\* the statements of kernel, as lines 378-383 list them
KernelOrder ==
    <<"make_win", "setup", "read_M_mat", "read_A_mat", "get_epsilon_mat", "run">>

IsPrefix(p, q) == Len(p) <= Len(q) /\ \A i \in DOMAIN p : p[i] = q[i]

\* the positions in w_lib_log of the library calls that raised
RaisedCalls == {i \in DOMAIN w_lib_log : ~w_lib_log[i].ok}

\* the statement of kernel that enters each library function
CallerOf(fn) == IF fn = "libwannier90.setup" THEN "setup" ELSE "run"

\* C7: when libwannier90.setup or libwannier90.run raises inside kernel, the
\* call ends with that error, the library call that raised is the last one
\* made and the only one of that function, the statement that made it is the
\* last statement kernel ran, and the six outputs of run are what they were
\* when kernel was called.
C7_LibraryErrorPropagates ==
    (w_method = "kernel" /\ RaisedCalls # {})
    => /\ w_pc = "raised"
       /\ w_err = "LibraryError"
       /\ RaisedCalls = {Len(w_lib_log)}
       /\ LET failing == w_lib_log[Len(w_lib_log)].fn
          IN  /\ Cardinality({i \in DOMAIN w_lib_log :
                                 w_lib_log[i].fn = failing}) = 1
              /\ w_trace # <<>>
              /\ w_trace[Len(w_trace)] = CallerOf(failing)
              /\ IsPrefix(w_trace, KernelOrder)
       /\ w_outputs = w_outputs_before

\* a second kernel call whose libwannier90.run raised after the first call
\* had set the outputs
C7_Witness ==
    /\ w_method = "kernel"
    /\ RaisedCalls # {}
    /\ w_lib_log[Len(w_lib_log)].fn = "libwannier90.run"
    /\ w_outputs.U_matrix = 1
    /\ w_ncalls = 2

\* libwannier90.setup raised inside kernel
C7_WitnessSetup ==
    /\ w_method = "kernel"
    /\ RaisedCalls # {}
    /\ w_lib_log[Len(w_lib_log)].fn = "libwannier90.setup"

KernelEnded == w_method = "kernel" /\ w_pc \in {"returned", "raised"}

\* C8: kernel runs make_win, setup, read_M_mat, read_A_mat, get_epsilon_mat
\* and run in this order and each at most once, all six exactly once when it
\* returns; libwannier90.setup is entered only after this call wrote the .win
\* file, and libwannier90.run only after M_matrix_loc, A_matrix_loc and
\* eigenvalues_loc were assigned.
C8_KernelOrder ==
    w_method = "kernel"
    => /\ IsPrefix(w_trace, KernelOrder)
       /\ (w_pc = "returned" => w_trace = KernelOrder)
       /\ (w_pc \notin {"returned", "raised"} =>
              w_pc = (KernelOrder \o <<"returned">>)[Len(w_trace) + 1])
       /\ \A i \in DOMAIN w_lib_log :
             /\ w_lib_log[i].win
             /\ w_lib_log[i].fn = "libwannier90.run" =>
                   /\ w_lib_log[i].M = "ndarray"
                   /\ w_lib_log[i].A = "ndarray"
                   /\ w_lib_log[i].eig = "ndarray"
                   /\ i = 2 /\ w_lib_log[1].fn = "libwannier90.setup"

\* a kernel call that returned
C8_Witness ==
    /\ w_method = "kernel"
    /\ w_pc = "returned"
    /\ Len(w_lib_log) = 2
    /\ w_lib_log[2].fn = "libwannier90.run"
    /\ w_outputs.U_matrix = w_ncalls

ExportEnded == w_method = "export_AME" /\ w_pc \in {"returned", "raised"}

\* C9: export_AME called while A_matrix_loc is None, the library not
\* failing, runs make_win, setup, the three builders and export_unk, and ends
\* having written wannier90.mmn, wannier90.amn and wannier90.eig.
C9_ExportOnFreshObject ==
    (ExportEnded /\ w_fresh /\ RaisedCalls = {})
    => /\ w_pc = "returned"
       /\ {"wannier90.mmn", "wannier90.amn", "wannier90.eig"} \subseteq w_written
\* C16: whatever methods were called before, libwannier90.run is entered only
\* when libwannier90.setup has returned and its outputs are assigned; run()
\* called while they are not fails an assertion and does not enter the
\* library.
C16_RunOnlyAfterSetup ==
    /\ \A i \in DOMAIN w_lib_log :
          w_lib_log[i].fn = "libwannier90.run" => w_lib_log[i].setup_out = "set"
    /\ (w_method = "run" /\ w_pc \in {"returned", "raised"} /\ w_setup_out # "set")
          => (w_err = "AssertionError" /\ w_lib_log = <<>>)

\* run() called on its own after an earlier call had run setup and assigned
\* the three arrays: the library is entered
C16_Witness ==
    /\ w_method = "run"
    /\ w_ncalls = 2
    /\ Len(w_lib_log) = 1
    /\ w_lib_log[1].fn = "libwannier90.run"
    /\ w_lib_log[1].setup_out = "set"

-----------------------------------------------------------------------------
(***************************************************************************)
(* Properties of the .amn file                                             *)
(***************************************************************************)
\* an entry as the 18 decimals of the file keep it
Rounded18(z) == <<Parse18(Format18(z[1])), Parse18(Format18(z[2]))>>

AmnReadBack == amn_pc = "read"

\* C10: read_A_mat applied to the lines export_AME wrote returns, at every
\* [k, w, b], the entry A[k, w, b] rounded to the 18 decimals of the file, and
\* takes it from the line labelled (b+1, w+1, k+1).
C10_AmnRoundTripTo18Decimals ==
    AmnReadBack =>
        \A ix \in Indices(amn_shape) :
            /\ amn_read[ix] = Rounded18(amn_A[ix])
            /\ amn_labels[ix] = <<ix[3] + 1, ix[2] + 1, ix[1] + 1>>

\* a (1, 2, 3) array with distinct neighbours read back, one entry having a
\* 19th decimal
C10_Witness ==
    /\ AmnReadBack
    /\ amn_shape = <<1, 2, 3>>
    /\ amn_A[<<0, 0, 1>>] = <<4, -16>>
    /\ amn_A[<<0, 1, 0>>] = <<10, -30>>
    /\ amn_read[<<0, 0, 1>>] = <<0, -20>>
    /\ amn_read[<<0, 1, 0>>] = <<10, -30>>

\* C10 as stated: the array read back is the array written.
C10_AmnRoundTripExact ==
    AmnReadBack => \A ix \in Indices(amn_shape) : amn_read[ix] = amn_A[ix]

-----------------------------------------------------------------------------
(***************************************************************************)
(* Properties of the .mmn file                                             *)
(***************************************************************************)
MmnReadBack == mmn_pc = "read"

\* C11: read_M_mat applied to the blocks export_AME wrote returns, at every
\* [k, nn, n, m], the entry M[k, nn, n, m] rounded to the 18 decimals of the
\* file.
C11_MmnRoundTripTo18Decimals ==
    MmnReadBack =>
        \A ix \in MIndices(mmn_shape) : mmn_read[ix] = Rounded18(mmn_M[ix])

\* a (1, 2, 2) array, not symmetric in (n, m), different in its two blocks,
\* one entry having a 19th decimal
C11_Witness ==
    /\ MmnReadBack
    /\ mmn_shape = <<1, 2, 2>>
    /\ mmn_M[<<0, 0, 0, 1>>] = <<4, -16>>
    /\ mmn_M[<<0, 0, 1, 0>>] = <<10, -30>>
    /\ mmn_M[<<0, 1, 0, 1>>] = <<0, 0>>
    /\ mmn_read[<<0, 0, 0, 1>>] = <<0, -20>>
    /\ mmn_read[<<0, 0, 1, 0>>] = <<10, -30>>

\* C11 as stated: the array read back is the array written.
C11_MmnRoundTripExact ==
    MmnReadBack => \A ix \in MIndices(mmn_shape) : mmn_read[ix] = mmn_M[ix]

-----------------------------------------------------------------------------
(***************************************************************************)
(* Properties of w90.main                                                  *)
(***************************************************************************)

\* C14: write_cif() with default arguments, called when get_symmetry has set
\* self.cell_type, hands a cell to cell_io.write_cif and does not raise,
\* whatever the cell type.
C14_WriteCifDefaultWrites ==
    \A i \in DOMAIN m_log :
        ( /\ m_log[i].op = "write_cif"
          /\ m_log[i].args = [cell |-> "None", symmetry |-> TRUE, type_set |-> TRUE] )
        => (m_log[i].out = "written" /\ m_log[i].cif.cell # "none")

-----------------------------------------------------------------------------
(***************************************************************************)
(* Properties of W90.plot_wf                                               *)
(***************************************************************************)

\* the positions of wf_list holding an id outside 0 .. num_wann_loc - 1
BadPositions == {i \in DOMAIN wf_list : wf_list[i] \notin 0 .. wf_num_wann - 1}

FirstBad == SetMin(BadPositions)

\* C15: when wf_list holds an id outside 0 .. num_wann_loc - 1, plot_wf ends
\* with the AssertionError raised at the first such id; the files written are
\* those of the ids before it, in order, and they stay written.
C15_PlotWfStopsAtBadId ==
    /\ wf_written = SubSeq(wf_list, 1, Len(wf_written))
    /\ (wf_pc \in {"loop", "returned", "AssertionError"} /\ BadPositions # {})
         => /\ Len(wf_written) < FirstBad
            /\ wf_pc # "returned"
            /\ wf_pc = "AssertionError"
                 => (wf_pos = FirstBad /\ Len(wf_written) = FirstBad - 1)
    /\ wf_pc = "AssertionError" => BadPositions # {}

\* the assertion failed at the second id: one file written before it, none
\* for the valid id after it
C15_Witness ==
    /\ wf_pc = "AssertionError"
    /\ wf_num_wann = 2
    /\ wf_list = <<1, -1, 0>>
    /\ wf_written = <<1>>
-----------------------------------------------------------------------------
(***************************************************************************)
(* Properties of VASP.get_efermi                                           *)
(***************************************************************************)

\* C20: get_efermi on an object built from a list of vaspruns does not
\* raise, and leaves in self.efermi one entry per loaded vasprun, entry i
\* being the Fermi level of self.vasprun[i]: its own if it has one, else the
\* one of the OUTCAR at its list position.
C20_EfermiPerVasprun ==
    (ef_pc \notin {"not called", "idle"} /\ vaspruns_arg.kind = "list") =>
        /\ ef_pc = "returned"
        /\ Len(self_efermi) = Len(self_vasprun)
        /\ \A i \in DOMAIN self_vasprun :
              self_efermi[i] = <<IF ef_has[self_vasprun[i]] THEN "vasprun" ELSE "OUTCAR",
                                 self_vasprun[i]>>

-----------------------------------------------------------------------------
(***************************************************************************)
(* Properties of VASP.plot_pband                                           *)
(***************************************************************************)

\* C22: after the first plot_pband call normalised the band range, it lies
\* inside the bands of the run: 0 <= band_idx[0] <= band_idx[1] <= nbands - 1,
\* for the default range and for every band_idx the caller gave with
\* band_idx[0] <= band_idx[1].
C22_BandRangeInsideBands ==
    (pp_calls = 1 /\ pp_pc = "returned") =>
        /\ 0 <= pp_range[1]
        /\ pp_range[1] <= pp_range[2]
        /\ pp_range[2] <= pp_nbands - 1

\* C23: plot_pband leaves the caller's band_idx list as it was given, and
\* every call made with that list object selects the bands
\* band_idx[0] - 1 .. band_idx[1] - 1 of the list as given (stated for lists
\* that lie inside 1 .. nbands, which need no clamping).
C23_CallerBandIdxUnchanged ==
    ( /\ pp_pc = "returned"
      /\ pp_given.given
      /\ 1 <= pp_given.v[1]
      /\ pp_given.v[1] <= pp_given.v[2]
      /\ pp_given.v[2] <= pp_nbands )
    => ( /\ pp_list = pp_given
         /\ pp_range = <<pp_given.v[1] - 1, pp_given.v[2] - 1>> )

-----------------------------------------------------------------------------
(***************************************************************************)
(* Properties of periodic_grid                                             *)
(***************************************************************************)

\* the offsets the grid is to hold along axis i
AxisOffsets(i) ==
    (0 - pg_grid[i] * (pg_supercell[i] \div 2))
        .. (pg_grid[i] * ((pg_supercell[i] + 1) \div 2) - 1)

\* C25: periodic_grid produces along axis i the n_i * s_i consecutive offsets
\* from -n_i * (s_i // 2) to n_i * ((s_i + 1) // 2) - 1, offset 0 among them;
\* the grid holds every combination of them once, n1*s1*n2*s2*n3*s3 points in
\* all; and weights holds one weight per grid point, all equal.
C25_PeriodicGridOffsets ==
    pg_pc = "returned" =>
        /\ \A i \in 1 .. 3 :
              /\ {pg_qv[j][i] : j \in DOMAIN pg_qv} = AxisOffsets(i)
              /\ Cardinality(AxisOffsets(i)) = pg_grid[i] * pg_supercell[i]
              /\ 0 \in AxisOffsets(i)
        /\ Len(pg_qv) = pg_grid[1] * pg_supercell[1] * pg_grid[2] * pg_supercell[2]
                           * pg_grid[3] * pg_supercell[3]
        /\ {pg_qv[j] : j \in DOMAIN pg_qv}
              = AxisOffsets(1) \X AxisOffsets(2) \X AxisOffsets(3)
        /\ Len(pg_weights) = Len(pg_qv)
        /\ \A i, j \in DOMAIN pg_weights : pg_weights[i] = pg_weights[j]

C25_Witness ==
    /\ pg_pc = "returned"
    /\ pg_grid = <<2, 1, 2>>
    /\ pg_supercell = <<3, 2, 1>>
    /\ pg_order = "F"
    /\ Len(pg_qv) = 24
    /\ pg_qv[1] = <<-2, -1, 0>>
    /\ pg_qv[2] = <<-1, -1, 0>>
    /\ pg_qv[24] = <<3, 0, 1>>
    /\ Len(pg_weights) = 24

-----------------------------------------------------------------------------
(***************************************************************************)
(* Properties of W90.__init__                                              *)
(***************************************************************************)

\* the attributes the claim names as assigned by setup()
SetupLater == {"num_bands_loc", "num_wann_loc", "nntot_loc", "nn_list", "proj_site",
               "proj_l", "proj_m", "proj_radial", "proj_z", "proj_x", "proj_zona",
               "exclude_bands", "proj_s", "proj_s_qaxis"}

\* C26: right after W90 construction every attribute that setup() later
\* assigns exists on the object and is None, and so do the run inputs and the
\* run outputs.
C26_SetupAttributesStartNone ==
    wa_pc = "constructed" =>
        \A a \in SetupLater \cup RunInputAttrs \cup RunOutputAttrs :
            a \in DOMAIN wa_attrs /\ wa_attrs[a] = "None"

====
